---------------------------- MODULE Spec2Model ----------------------------
(***************************************************************************)
(* rnginline: the regex builder (rnginline/regexbuilder.py), the RFC 3986  *)
(* rule lookup (rnginline/uri_regex.py, rnginline/uri.py), and the state   *)
(* of an inline operation (rnginline/__init__.py).                         *)
(*                                                                         *)
(* A Python str is modelled as a sequence of one-character strings, so     *)
(* that escaping, joining and parsing work character by character.         *)
(* An absent value (Python None) is the empty sequence, a present value v  *)
(* is <<v>>.                                                               *)
(***************************************************************************)
EXTENDS Integers, Sequences, FiniteSets, TLC

VARIABLES
    pool,       \* the nodes the declaring code holds, in construction order
    out,        \* what the last call on the builder returned or raised
    cache,      \* get_regex's lru_cache: its entries, most recently used last
    got,        \* what the last get_regex call returned or raised
    matched,    \* what the last matcher.match(text) call returned
    compiled,   \* how many times the body of get_regex has compiled each rule
    context,    \* the InlineContext of the inline operation
    tokens,     \* how many InlineContextToken objects have been made
    blocks,     \* the track() blocks that are open, the innermost last
    called,     \* what the last call on the InlineContext returned or raised
    fetches,    \* the calls of handler.dereference: url and bytes returned
    threads,    \* the threads calling get_regex: where each is in its call
    dxi,        \* the DeferredXmlInsertion the inline operation merges with
    markers,    \* how many uuid markers have been made
    inserted    \* the calls made on the DeferredXmlInsertion, in order

\* the state of the builder and of the rule lookup
building == <<pool, out, cache, got, matched, compiled>>

\* the state of the inline operation
inlining == <<context, tokens, blocks, called, fetches>>

\* the threads that look rules up at the same time
racing == <<threads>>

\* the state of the deferred merge of the inlined trees
inserting == <<dxi, markers, inserted>>

vars == <<building, inlining, racing, inserting>>

None == <<>>
Some(v) == <<v>>

----------------------------------------------------------------------------
(* Characters and code points: ord() and chr() on the part of the code     *)
(* space the model uses.                                                   *)

CodePoint ==
    [c \in {"\n"} |-> 10] @@
    ("$" :> 36) @@ ("%" :> 37) @@ ("(" :> 40) @@ (")" :> 41) @@ ("*" :> 42) @@
    ("+" :> 43) @@ ("," :> 44) @@ ("-" :> 45) @@ ("." :> 46) @@
    ("0" :> 48) @@ ("1" :> 49) @@ ("2" :> 50) @@ ("3" :> 51) @@ ("4" :> 52) @@
    ("5" :> 53) @@ ("6" :> 54) @@ ("7" :> 55) @@ ("8" :> 56) @@ ("9" :> 57) @@
    (":" :> 58) @@ ("<" :> 60) @@ (">" :> 62) @@ ("?" :> 63) @@
    ("A" :> 65) @@ ("F" :> 70) @@ ("P" :> 80) @@ ("Z" :> 90) @@
    ("[" :> 91) @@ ("\\" :> 92) @@ ("]" :> 93) @@ ("^" :> 94) @@ ("_" :> 95) @@
    ("a" :> 97) @@ ("b" :> 98) @@ ("f" :> 102) @@ ("n" :> 110) @@
    ("s" :> 115) @@ ("z" :> 122) @@ ("{" :> 123) @@ ("|" :> 124) @@ ("}" :> 125)

Chars == DOMAIN CodePoint

ord(c) == CodePoint[c]

chr(n) == CHOOSE c \in Chars : CodePoint[c] = n

\* chr(n) raises ValueError: n is not in range(0x110000)
chr_raises(n) == n < 0 \/ n > 1114111

Digits == <<"0", "1", "2", "3", "4", "5", "6", "7", "8", "9">>

IsDigit(c) == \E d \in 1..10 : Digits[d] = c

DigitValue(c) == (CHOOSE d \in 1..10 : Digits[d] = c) - 1

RECURSIVE FormatInt(_)
\* "{0:d}".format(n) for n >= 0
FormatInt(n) ==
    IF n < 10 THEN <<Digits[n + 1]>>
    ELSE FormatInt(n \div 10) \o <<Digits[(n % 10) + 1]>>

RECURSIVE Join(_, _)
\* sep.join(parts)
Join(sep, parts) ==
    IF Len(parts) = 0 THEN <<>>
    ELSE IF Len(parts) = 1 THEN parts[1]
    ELSE parts[1] \o sep \o Join(sep, Tail(parts))

RECURSIVE Concat(_)
\* the lists of a list, joined
Concat(lists) ==
    IF Len(lists) = 0 THEN <<>> ELSE lists[1] \o Concat(Tail(lists))

\* re.escape(char) of the host library, for one character: the characters
\* it treats as special get a backslash.
ReEscapeSpecial ==
    {"(", ")", "[", "]", "{", "}", "?", "*", "+", "-", "|", "^", "$", "\\", ".", "\n"}

re_escape(char) ==
    IF char \in ReEscapeSpecial THEN <<"\\", char>> ELSE <<char>>

----------------------------------------------------------------------------
(* Nodes. Every node is a record of one shape; the fields a class does not *)
(* have stay at their blank value.                                         *)

BlankNode ==
    [kind |-> "", text |-> <<>>, expressions |-> <<>>, name |-> None,
     ranges |-> <<>>, min |-> None, max |-> None, subclass |-> ""]

MkLiteral(text) == [BlankNode EXCEPT !.kind = "Literal", !.text = text]

MkBaseSequence(kind, expressions) ==
    [BlankNode EXCEPT !.kind = kind, !.expressions = expressions]

MkCapture(expressions, name) ==
    [BlankNode EXCEPT !.kind = "Capture", !.expressions = expressions,
                      !.name = name]

MkSet(ranges) == [BlankNode EXCEPT !.kind = "Set", !.ranges = ranges]

MkRepeat(expression, min, max) ==
    [BlankNode EXCEPT !.kind = "Repeat", !.expressions = <<expression>>,
                      !.min = min, !.max = max]

MkStandAlone(kind) == [BlankNode EXCEPT !.kind = kind]

StandAloneKinds == {"Start", "End", "Whitespace"}

\* StandAlone.representation of Start, End and Whitespace
representation(node) ==
    CASE node.kind = "Start" -> <<"^">>
      [] node.kind = "End" -> <<"$">>
      [] node.kind = "Whitespace" -> <<"\\", "s">>

----------------------------------------------------------------------------
(* SetRange                                                                *)

SetRange(start, end) == [start |-> start, end |-> end]

SetRange_is_single(r) == r.start = r.end

\* SetRange.intersects with < and > taken as <= and >=
SetRange_intersects_apart(self, range) ==
    ~(self.end <= range.start) /\ ~(self.start >= range.end)

\* SetRange.intersects(range)
SetRange_intersects(self, range) ==
    LET start == range.start
        end == range.end
        ends_before == self.end < start
        starts_after == self.start > end
    IN  (~ends_before) /\ (~starts_after)

\* SetRange.needs_escape without the case of the first character
SetRange_needs_escape_anywhere(char, is_first) == char \in {"\\", "]", "-"}

SetRange_needs_escape(char, is_first) ==
    (is_first /\ char = "^") \/ char \in {"\\", "]", "-"}

SetRange_render_char(code_point, is_first) ==
    LET char == chr(code_point)
    IN  IF SetRange_needs_escape(char, is_first) THEN re_escape(char)
        ELSE <<char>>

\* SetRange.render that passes is_first on to the end of the range
SetRange_render_end_as_first(r, is_first) ==
    IF SetRange_is_single(r) THEN SetRange_render_char(r.start, is_first)
    ELSE SetRange_render_char(r.start, is_first) \o <<"-">>
         \o SetRange_render_char(r.end, is_first)

SetRange_render(r, is_first) ==
    IF SetRange_is_single(r) THEN SetRange_render_char(r.start, is_first)
    ELSE SetRange_render_char(r.start, is_first) \o <<"-">>
         \o SetRange_render_char(r.end, FALSE)

Set_render(node) ==
    LET contents ==
            Join(<<>>, [pos \in 1..Len(node.ranges) |->
                            SetRange_render(node.ranges[pos], pos = 1)])
    IN  <<"[">> \o contents \o <<"]">>

----------------------------------------------------------------------------
(* Literal                                                                 *)

Literal_reserved_chars ==
    {"\\", ".", "^", "$", "*", "+", "?", "{", "}", "[", "]", "|", "(", ")"}

\* Literal.needs_escape with a _reserved_chars that lacks the brackets
Literal_needs_escape_but_brackets(char) ==
    char \in Literal_reserved_chars \ {"[", "]"}

Literal_needs_escape(char) == char \in Literal_reserved_chars

Literal_render(node) ==
    Join(<<>>, [i \in 1..Len(node.text) |->
                    IF Literal_needs_escape(node.text[i])
                    THEN re_escape(node.text[i])
                    ELSE <<node.text[i]>>])

----------------------------------------------------------------------------
(* Repeat.operator                                                         *)

\* Repeat.operator without the rules for +, ? and {N}
Repeat_operator_by_bounds(node) ==
    IF node.min = None /\ node.max = None THEN <<"*">>
    ELSE IF node.min = None
         THEN <<"{", ",">> \o FormatInt(node.max[1]) \o <<"}">>
    ELSE IF node.max = None
         THEN <<"{">> \o FormatInt(node.min[1]) \o <<",", "}">>
    ELSE <<"{">> \o FormatInt(node.min[1]) \o <<",">>
         \o FormatInt(node.max[1]) \o <<"}">>

Repeat_operator(node) ==
    IF node.min = None /\ node.max = None THEN <<"*">>
    ELSE IF node.min = Some(1) /\ node.max = None THEN <<"+">>
    ELSE IF node.min = Some(0) /\ node.max = Some(1) THEN <<"?">>
    ELSE IF node.min = node.max THEN <<"{">> \o FormatInt(node.min[1]) \o <<"}">>
    ELSE IF node.min = None
         THEN <<"{", ",">> \o FormatInt(node.max[1]) \o <<"}">>
    ELSE IF node.max = None
         THEN <<"{">> \o FormatInt(node.min[1]) \o <<",", "}">>
    ELSE <<"{">> \o FormatInt(node.min[1]) \o <<",">>
         \o FormatInt(node.max[1]) \o <<"}">>

----------------------------------------------------------------------------
(* Regex: is_singular, is_expansive, render, render_singular,              *)
(* render_non_expansive, by class.                                         *)

RECURSIVE is_singular(_)
\* BaseSequence.is_singular without the test of the expression itself
is_singular_by_length(node) ==
    CASE node.kind = "Literal" -> Len(node.text) = 1
      [] node.kind \in {"Sequence", "Choice"} -> Len(node.expressions) = 1
      [] node.kind = "Capture" -> TRUE
      [] node.kind = "Set" -> TRUE
      [] node.kind \in StandAloneKinds -> TRUE
      [] OTHER -> FALSE

is_singular(node) ==
    CASE node.kind = "Literal" -> Len(node.text) = 1
      [] node.kind \in {"Sequence", "Choice"} ->
            Len(node.expressions) = 1 /\ is_singular(node.expressions[1])
      [] node.kind = "Capture" -> TRUE
      [] node.kind = "Set" -> TRUE
      [] node.kind \in StandAloneKinds -> TRUE
      [] OTHER -> FALSE

\* Choice.is_expansive left at the default of Regex
is_expansive_never(node) == FALSE

is_expansive(node) ==
    IF node.kind = "Choice" THEN ~is_singular(node) ELSE FALSE

get_operator(node) == IF node.kind = "Choice" THEN <<"|">> ELSE <<>>

\* a plain (capturing) group where the anonymous one belongs
CapturingGroup(rendered) == <<"(">> \o rendered \o <<")">>

\* the group render_singular puts around an expression that is not singular
AnonymousGroup(rendered) == <<"(", "?", ":">> \o rendered \o <<")">>

RECURSIVE render(_)
RECURSIVE render_singular(_)
RECURSIVE render_non_expansive(_)
RECURSIVE BaseSequence_render(_)
RECURSIVE UnaryOperator_render(_)
RECURSIVE Capture_render(_)

render_singular(node) ==
    LET rendered == render(node)
    IN  IF is_singular(node) THEN rendered ELSE AnonymousGroup(rendered)

\* render_non_expansive that never isolates the expression
render_non_expansive_bare(node) == render(node)

render_non_expansive(node) ==
    IF is_expansive(node) THEN render_singular(node) ELSE render(node)

BaseSequence_render(node) ==
    Join(get_operator(node),
         [i \in 1..Len(node.expressions) |->
              render_non_expansive(node.expressions[i])])

Capture_render(node) ==
    LET expressions == BaseSequence_render(node)
    IN  IF node.name # None
        THEN <<"(", "?", "P", "<">> \o node.name[1] \o <<">">>
             \o expressions \o <<")">>
        ELSE <<"(">> \o expressions \o <<")">>

\* UnaryOperator.render with render() for render_singular()
UnaryOperator_render_bare(node) ==
    render(node.expressions[1]) \o Repeat_operator(node)

UnaryOperator_render(node) ==
    render_singular(node.expressions[1]) \o Repeat_operator(node)

render(node) ==
    CASE node.kind = "Literal" -> Literal_render(node)
      [] node.kind \in {"Sequence", "Choice"} -> BaseSequence_render(node)
      [] node.kind = "Capture" -> Capture_render(node)
      [] node.kind = "Set" -> Set_render(node)
      [] node.kind = "Repeat" -> UnaryOperator_render(node)
      [] node.kind \in StandAloneKinds -> representation(node)

(* Where render() raises: chr() in SetRange.render_char is the one call of *)
(* the render methods that can; what it raises passes through every        *)
(* render(), render_singular() and render_non_expansive() above it.        *)

SetRange_render_raises(r) ==
    IF SetRange_is_single(r) THEN chr_raises(r.start)
    ELSE chr_raises(r.start) \/ chr_raises(r.end)

Set_render_raises(node) ==
    \E pos \in 1..Len(node.ranges) : SetRange_render_raises(node.ranges[pos])

RECURSIVE render_raises(_)
render_raises(node) ==
    CASE node.kind = "Set" -> Set_render_raises(node)
      [] node.kind \in {"Sequence", "Choice", "Capture", "Repeat"} ->
            \E i \in 1..Len(node.expressions) :
                render_raises(node.expressions[i])
      [] OTHER -> FALSE

----------------------------------------------------------------------------
(* The host dialect (Python re), as far as the builder's output uses it:   *)
(* what re.compile reads in a pattern. A pattern is a list of              *)
(* alternatives, an alternative a list of items, an item an atom with at   *)
(* most one repetition operator.                                           *)

BlankItem ==
    [t |-> "", ch |-> "", negate |-> FALSE, members |-> {}, cap |-> FALSE,
     name |-> None, body |-> <<>>, q |-> None]

CharItem(c) == [BlankItem EXCEPT !.t = "char", !.ch = c]
AtItem(c) == [BlankItem EXCEPT !.t = "at", !.ch = c]
AnyItem == [BlankItem EXCEPT !.t = "any"]
CategoryItem(c) == [BlankItem EXCEPT !.t = "category", !.ch = c]
ClassItem(negate, members) ==
    [BlankItem EXCEPT !.t = "class", !.negate = negate, !.members = members]
GroupItem(cap, name, body) ==
    [BlankItem EXCEPT !.t = "group", !.cap = cap, !.name = name, !.body = body]

Quantifier(min, max, mode) == [min |-> min, max |-> max, mode |-> mode]

Parsed(val, pos) == [ok |-> TRUE, val |-> val, pos |-> pos, err |-> ""]
ParseError(err, pos) == [ok |-> FALSE, val |-> <<>>, pos |-> pos, err |-> err]

At(s, i) == IF i >= 1 /\ i <= Len(s) THEN s[i] ELSE ""

AsciiLettersDigits ==
    {"0", "1", "2", "3", "4", "5", "6", "7", "8", "9",
     "A", "F", "P", "Z", "a", "b", "f", "n", "s", "z"}

\* the characters \s matches, among Chars
WhitespaceChars == {"\n"}

\* the characters \w matches, among Chars
WordChars == AsciiLettersDigits \cup {"_"}

CategoryChars(c) == IF c = "s" THEN WhitespaceChars ELSE WordChars

RECURSIVE ReadInt(_, _, _)
\* the run of digits of s from i: <<value or None, next position>>
ReadInt(s, i, acc) ==
    IF IsDigit(At(s, i))
    THEN ReadInt(s, i + 1,
                 Some((IF acc = None THEN 0 ELSE acc[1]) * 10 + DigitValue(s[i])))
    ELSE <<acc, i>>

\* the code of one member of a character class at i: a character, an
\* escaped character, or a category
ClassCode(s, i) ==
    IF At(s, i) # "\\" THEN Parsed({s[i]}, i + 1)
    ELSE IF i + 1 > Len(s) THEN ParseError("bad escape (end of pattern)", i)
    ELSE IF s[i + 1] \in {"s", "w"} THEN Parsed(CategoryChars(s[i + 1]), i + 2)
    ELSE IF s[i + 1] = "n" THEN Parsed({"\n"}, i + 2)
    ELSE IF s[i + 1] \in AsciiLettersDigits THEN ParseError("bad escape", i)
    ELSE Parsed({s[i + 1]}, i + 2)

IsCategoryCode(s, i) == At(s, i) = "\\" /\ At(s, i + 1) \in {"s", "w"}

RECURSIVE ParseClassBody(_, _, _, _)
\* the members of a character class from i, up to its closing bracket;
\* a bracket that comes first is a member
ParseClassBody(s, i, members, isEmpty) ==
    IF i > Len(s) THEN ParseError("unterminated character set", i)
    ELSE IF s[i] = "]" /\ ~isEmpty THEN Parsed(members, i + 1)
    ELSE
      LET code1 == ClassCode(s, i)
      IN  IF ~code1.ok THEN code1
          ELSE IF At(s, code1.pos) = "-"
          THEN LET j == code1.pos + 1
               IN  IF j > Len(s)
                   THEN ParseError("unterminated character set", j)
                   ELSE IF s[j] = "]"
                   THEN Parsed(members \cup code1.val \cup {"-"}, j + 1)
                   ELSE
                     LET code2 == ClassCode(s, j)
                     IN  IF ~code2.ok THEN code2
                         ELSE IF IsCategoryCode(s, i) \/ IsCategoryCode(s, j)
                         THEN ParseError("bad character range", i)
                         ELSE
                           LET lo == ord(CHOOSE c \in code1.val : TRUE)
                               hi == ord(CHOOSE c \in code2.val : TRUE)
                           IN  IF hi < lo
                               THEN ParseError("bad character range", i)
                               ELSE ParseClassBody(s, code2.pos,
                                        members \cup
                                        {c \in Chars : lo <= ord(c) /\ ord(c) <= hi},
                                        FALSE)
          ELSE ParseClassBody(s, code1.pos, members \cup code1.val, FALSE)

\* a character class, s[i] being its opening bracket
ParseClass(s, i) ==
    LET negate == At(s, i + 1) = "^"
        r == ParseClassBody(s, IF negate THEN i + 2 ELSE i + 1, {}, TRUE)
    IN  IF r.ok THEN Parsed(ClassItem(negate, r.val), r.pos) ELSE r

\* a repetition operator at i (s[i] one of * + ? {): its bounds, or val None
\* when the brace does not open one and is an ordinary character
ParseRepeat(s, i) ==
    LET bounds ==
          IF s[i] = "*" THEN Parsed(<<0, None>>, i + 1)
          ELSE IF s[i] = "+" THEN Parsed(<<1, None>>, i + 1)
          ELSE IF s[i] = "?" THEN Parsed(<<0, Some(1)>>, i + 1)
          ELSE IF At(s, i + 1) = "}" THEN Parsed(None, i + 1)
          ELSE
            LET lo == ReadInt(s, i + 1, None)
                hasComma == At(s, lo[2]) = ","
                hi == IF hasComma THEN ReadInt(s, lo[2] + 1, None) ELSE lo
            IN  IF At(s, hi[2]) # "}" THEN Parsed(None, i + 1)
                ELSE IF lo[1] # None /\ hi[1] # None /\ hi[1][1] < lo[1][1]
                THEN ParseError("min repeat greater than max repeat", i)
                ELSE Parsed(<<IF lo[1] = None THEN 0 ELSE lo[1][1], hi[1]>>,
                            hi[2] + 1)
    IN  IF ~bounds.ok \/ bounds.val = None THEN bounds
        ELSE IF At(s, bounds.pos) = "?"
        THEN Parsed(Some(Quantifier(bounds.val[1], bounds.val[2], "lazy")),
                    bounds.pos + 1)
        ELSE Parsed(Some(Quantifier(bounds.val[1], bounds.val[2], "greedy")),
                    bounds.pos)

RECURSIVE FindChar(_, _, _)
\* the first position from i where s holds c, or 0
FindChar(s, i, c) ==
    IF i > Len(s) THEN 0
    ELSE IF s[i] = c THEN i
    ELSE FindChar(s, i + 1, c)

\* an escape outside a character class, s[i] being the backslash
ParseEscape(s, i) ==
    IF i + 1 > Len(s) THEN ParseError("bad escape (end of pattern)", i)
    ELSE IF s[i + 1] \in {"s", "w"} THEN Parsed(CategoryItem(s[i + 1]), i + 2)
    ELSE IF s[i + 1] = "n" THEN Parsed(CharItem("\n"), i + 2)
    ELSE IF s[i + 1] \in AsciiLettersDigits THEN ParseError("bad escape", i)
    ELSE Parsed(CharItem(s[i + 1]), i + 2)

\* the operator r read at i put on the last of items; a brace that opens no
\* operator is an ordinary character
PutRepeat(s, i, items, r) ==
    IF ~r.ok THEN r
    ELSE IF r.val = None THEN Parsed(Append(items, CharItem(s[i])), r.pos)
    ELSE IF Len(items) = 0 THEN ParseError("nothing to repeat", i)
    ELSE IF items[Len(items)].q # None THEN ParseError("multiple repeat", i)
    ELSE Parsed([items EXCEPT ![Len(items)].q = r.val], r.pos)

\* the item r read at some position added to items
PutItem(items, r) ==
    IF r.ok THEN Parsed(Append(items, r.val), r.pos) ELSE r

\* where the body of the group opened at i starts: 0 for an extension that
\* is not known, -1 for a name that is not closed
GroupStart(s, i) ==
    IF At(s, i + 1) # "?" THEN i + 1
    ELSE IF At(s, i + 2) = ":" THEN i + 3
    ELSE IF At(s, i + 2) = "P" /\ At(s, i + 3) = "<"
    THEN IF FindChar(s, i + 4, ">") = 0 THEN -1
         ELSE FindChar(s, i + 4, ">") + 1
    ELSE 0

\* the group opened at i whose body, read from start, is the result body
CloseGroup(s, i, start, body) ==
    IF ~body.ok THEN body
    ELSE IF At(s, body.pos) # ")"
    THEN ParseError("missing ), unterminated subpattern", i)
    ELSE Parsed(GroupItem(start # i + 3,
                          IF start > i + 3
                          THEN Some(SubSeq(s, i + 4, start - 2))
                          ELSE None,
                          body.val),
                body.pos + 1)

RECURSIVE ParseAlternatives(_, _, _)
RECURSIVE MoreAlternatives(_, _, _)
RECURSIVE ParseItems(_, _, _)
RECURSIVE MoreItems(_, _)
RECURSIVE ParseStep(_, _, _)
RECURSIVE ParseGroup(_, _, _)

\* the alternatives after the one read as r
MoreAlternatives(s, alts, r) ==
    IF ~r.ok THEN r
    ELSE IF At(s, r.pos) = "|"
    THEN ParseAlternatives(s, r.pos + 1, Append(alts, r.val))
    ELSE Parsed(Append(alts, r.val), r.pos)

\* the alternatives from i, up to a closing parenthesis or the end
ParseAlternatives(s, i, alts) ==
    MoreAlternatives(s, alts, ParseItems(s, i, <<>>))

\* a group, s[i] being its opening parenthesis and start where its body
\* starts
ParseGroup(s, i, start) ==
    IF start = 0 THEN ParseError("unknown extension", i)
    ELSE IF start < 0 THEN ParseError("missing >, unterminated name", i)
    ELSE CloseGroup(s, i, start, ParseAlternatives(s, start, <<>>))

\* the item at i added to items, or the operator at i put on the last item
ParseStep(s, i, items) ==
    CASE s[i] \in {"*", "+", "?", "{"} ->
             PutRepeat(s, i, items, ParseRepeat(s, i))
      [] s[i] = "\\" -> PutItem(items, ParseEscape(s, i))
      [] s[i] = "[" -> PutItem(items, ParseClass(s, i))
      [] s[i] = "(" -> PutItem(items, ParseGroup(s, i, GroupStart(s, i)))
      [] s[i] = "." -> PutItem(items, Parsed(AnyItem, i + 1))
      [] s[i] \in {"^", "$"} -> PutItem(items, Parsed(AtItem(s[i]), i + 1))
      [] OTHER -> PutItem(items, Parsed(CharItem(s[i]), i + 1))

\* the items after the step whose result is r
MoreItems(s, r) ==
    IF r.ok THEN ParseItems(s, r.pos, r.val) ELSE r

\* the items of one alternative from i, up to a bar, a closing parenthesis
\* or the end
ParseItems(s, i, items) ==
    IF i > Len(s) \/ s[i] \in {"|", ")"} THEN Parsed(items, i)
    ELSE MoreItems(s, ParseStep(s, i, items))

\* the pattern as re.compile reads it: its alternatives, or the error
parse(pattern) ==
    LET r == ParseAlternatives(pattern, 1, <<>>)
    IN  IF ~r.ok THEN r
        ELSE IF r.pos <= Len(pattern)
        THEN ParseError("unbalanced parenthesis", r.pos)
        ELSE r

(* What re.compile refuses in a pattern it can read: a repetition operator *)
(* on ^ or $, a group name that is no identifier, and a group name used    *)
(* twice.                                                                  *)

RECURSIVE RepeatsAtInAlternatives(_)
RECURSIVE RepeatsAtInItems(_)
\* an operator is on a ^ or a $
RepeatsAtInItems(items) ==
    \E i \in 1..Len(items) :
        \/ items[i].t = "at" /\ items[i].q # None
        \/ items[i].t = "group" /\ RepeatsAtInAlternatives(items[i].body)
RepeatsAtInAlternatives(alts) ==
    \E a \in 1..Len(alts) : RepeatsAtInItems(alts[a])

RECURSIVE NamesInAlternatives(_)
RECURSIVE NamesInItems(_)
\* the names of the named groups, by opening parenthesis
NamesInItems(items) ==
    Concat([i \in 1..Len(items) |->
              IF items[i].t # "group" THEN <<>>
              ELSE (IF items[i].name # None THEN <<items[i].name[1]>> ELSE <<>>)
                   \o NamesInAlternatives(items[i].body)])
NamesInAlternatives(alts) ==
    Concat([a \in 1..Len(alts) |-> NamesInItems(alts[a])])

\* str.isidentifier(), among Chars
isidentifier(name) ==
    /\ Len(name) >= 1
    /\ name[1] \in WordChars /\ ~IsDigit(name[1])
    /\ \A i \in 1..Len(name) : name[i] \in WordChars

\* what re.compile makes of a pattern read as r with the group names names
CheckPattern(r, names) ==
    IF ~r.ok THEN r
    ELSE IF RepeatsAtInAlternatives(r.val) THEN ParseError("nothing to repeat", 0)
    ELSE IF \E i \in 1..Len(names) : Len(names[i]) = 0
    THEN ParseError("missing group name", 0)
    ELSE IF \E i \in 1..Len(names) : ~isidentifier(names[i])
    THEN ParseError("bad character in group name", 0)
    ELSE IF \E i, j \in 1..Len(names) : i < j /\ names[i] = names[j]
    THEN ParseError("redefinition of group name", 0)
    ELSE r

\* the names of the groups of a pattern read as r
NamesOfPattern(r) == IF r.ok THEN NamesInAlternatives(r.val) ELSE <<>>

\* re.compile(pattern): the pattern as read, or the error
re_compile(pattern) ==
    CheckPattern(parse(pattern), NamesOfPattern(parse(pattern)))

\* Regex.compile(): re.compile(self.render())
compile(node) == re_compile(render(node))

----------------------------------------------------------------------------
(* Matching in the host dialect: the positions at which a match of a       *)
(* parsed pattern that starts at position i of text can end. Positions     *)
(* count from 1; Len(text) + 1 is the end of the text.                     *)

RECURSIVE MatchAlternatives(_, _, _)
RECURSIVE MatchItems(_, _, _, _)
RECURSIVE MatchItem(_, _, _)
RECURSIVE MatchAtom(_, _, _)
RECURSIVE MatchRepeat(_, _, _, _, _)

MatchAtom(item, text, i) ==
    CASE item.t = "char" -> IF At(text, i) = item.ch THEN {i + 1} ELSE {}
      [] item.t = "any" ->
            IF i <= Len(text) /\ text[i] # "\n" THEN {i + 1} ELSE {}
      [] item.t = "category" ->
            IF At(text, i) \in CategoryChars(item.ch) THEN {i + 1} ELSE {}
      [] item.t = "class" ->
            IF i <= Len(text) /\ ((text[i] \in item.members) # item.negate)
            THEN {i + 1} ELSE {}
      [] item.t = "at" /\ item.ch = "^" -> IF i = 1 THEN {i} ELSE {}
      [] item.t = "at" /\ item.ch = "$" ->
            \* the end of the text, or just before a line break that ends it
            IF i = Len(text) + 1 \/ (i = Len(text) /\ text[i] = "\n")
            THEN {i} ELSE {}
      [] item.t = "group" -> MatchAlternatives(item.body, text, i)

\* from the positions in cur, reached after n repetitions, the positions
\* reached after between min and max repetitions in all
MatchRepeat(item, text, cur, n, acc) ==
    LET q == item.q[1]
        within == IF n >= q.min THEN acc \cup cur ELSE acc
        next == UNION {MatchAtom(item, text, p) : p \in cur}
    IN  IF cur = {} \/ (q.max # None /\ n >= q.max[1])
           \/ (n >= q.min /\ next \subseteq within)
        THEN within
        ELSE MatchRepeat(item, text, next, n + 1, within)

MatchItem(item, text, i) ==
    IF item.q = None THEN MatchAtom(item, text, i)
    ELSE MatchRepeat(item, text, {i}, 0, {})

MatchItems(items, k, text, i) ==
    IF k > Len(items) THEN {i}
    ELSE UNION {MatchItems(items, k + 1, text, p) :
                    p \in MatchItem(items[k], text, i)}

MatchAlternatives(alts, text, i) ==
    UNION {MatchItems(alts[a], 1, text, i) : a \in 1..Len(alts)}

\* bool(pattern.match(text)): a match that starts at the first character
\* and ends anywhere
re_match(parsed, text) == MatchAlternatives(parsed, text, 1) # {}

\* bool(pattern.fullmatch(text)): a match of the whole text
re_fullmatch(parsed, text) == (Len(text) + 1) \in MatchAlternatives(parsed, text, 1)

----------------------------------------------------------------------------
(* Constructors. A constructor call returns a node or raises; Raised and   *)
(* Returned are its two outcomes.                                          *)

Returned(node) == [raised |-> "", node |-> node]
Raised(exception) == [raised |-> exception, node |-> BlankNode]

\* NAME = re.compile(r"^[a-zA-Z_]\w*$")
NAME ==
    <<"^", "[", "a", "-", "z", "A", "-", "Z", "_", "]", "\\", "w", "*", "$">>

is_name(string) == re_match(parse(NAME).val, string)

Literal_init(text) == Returned(MkLiteral(text))

BaseSequence_init(kind, expressions) ==
    Returned(MkBaseSequence(kind, expressions))

Capture_init(expressions, name) ==
    IF name # None /\ ~is_name(name[1]) THEN Raised("ValueError")
    ELSE Returned(MkCapture(expressions, name))

StandAlone_init(kind) == Returned(MkStandAlone(kind))

\* Repeat.__init__ without its last assertion, of min <= max
Repeat_init_unordered(expression, min, max, count) ==
    IF count # None /\ ~(min = None /\ max = None) THEN Raised("AssertionError")
    ELSE
      LET min2 == IF count # None THEN count ELSE min
          max2 == IF count # None THEN count ELSE max
      IN  IF ~(min2 = None \/ min2[1] >= 0) THEN Raised("AssertionError")
          ELSE IF ~(max2 = None \/ max2[1] >= 0) THEN Raised("AssertionError")
          ELSE Returned(MkRepeat(expression, min2, max2))

\* Repeat.__init__(expression, min, max, count)
Repeat_init(expression, min, max, count) ==
    IF count # None /\ ~(min = None /\ max = None) THEN Raised("AssertionError")
    ELSE
      LET min2 == IF count # None THEN count ELSE min
          max2 == IF count # None THEN count ELSE max
      IN  IF ~(min2 = None \/ min2[1] >= 0) THEN Raised("AssertionError")
          ELSE IF ~(max2 = None \/ max2[1] >= 0) THEN Raised("AssertionError")
          ELSE IF ~((min2 = None /\ max2 = None) \/ (min2 = None \/ max2 = None)
                    \/ min2[1] <= max2[1])
          THEN Raised("AssertionError")
          ELSE Returned(MkRepeat(expression, min2, max2))

\* what the constructor of a subclass returns, r being what the __init__
\* of its superclass did
OfSubclass(cls, r) ==
    IF r.raised = "" THEN Returned([r.node EXCEPT !.subclass = cls]) ELSE r

ZeroOrMore_init(expression) ==
    OfSubclass("ZeroOrMore", Repeat_init(expression, None, None, None))

OneOrMore_init(expression) ==
    OfSubclass("OneOrMore", Repeat_init(expression, Some(1), None, None))

Optional_init(expression) ==
    OfSubclass("Optional", Repeat_init(expression, Some(0), Some(1), None))

(* The arguments of Set and SetRange.create: a code point (int), a         *)
(* character (str), a pair of either, a SetRange, or a Set.                *)

BlankItemArg ==
    [t |-> "", n |-> 0, c |-> "", pair |-> <<>>, range |-> SetRange(0, 0),
     set |-> BlankNode, text |-> <<>>]

IntArg(n) == [BlankItemArg EXCEPT !.t = "int", !.n = n]
StrArg(c) == [BlankItemArg EXCEPT !.t = "str", !.c = c]
TupleArg(elements) == [BlankItemArg EXCEPT !.t = "tuple", !.pair = elements]
SetRangeArg(r) == [BlankItemArg EXCEPT !.t = "SetRange", !.range = r]
SetArg(node) == [BlankItemArg EXCEPT !.t = "Set", !.set = node]

\* an argument of Repeat: None, or an int
NoneArg == [BlankItemArg EXCEPT !.t = "None"]
OptionalArg(v) == IF v = None THEN NoneArg ELSE IntArg(v[1])

\* the name argument of Capture: None, or a str of any length
NameArg(name) ==
    IF name = None THEN NoneArg
    ELSE [BlankItemArg EXCEPT !.t = "name", !.text = name[1]]

SetRange_get_codepoint(item) == IF item.t = "int" THEN item.n ELSE ord(item.c)

\* SetRange.__init__ without its test of the ends
SetRange_init_unchecked(start, end) == Some(SetRange(start, end))

\* SetRange.__init__(start, end): the range, or None when it raises
SetRange_init(start, end) ==
    IF end < start THEN None ELSE Some(SetRange(start, end))

\* SetRange.create(item): the range, or None when it raises ValueError
SetRange_create(item) ==
    IF item.t = "SetRange" THEN Some(item.range)
    ELSE IF item.t \in {"int", "str"}
    THEN SetRange_init(SetRange_get_codepoint(item), SetRange_get_codepoint(item))
    ELSE IF Len(item.pair) = 2
    THEN SetRange_init(SetRange_get_codepoint(item.pair[1]),
                       SetRange_get_codepoint(item.pair[2]))
    ELSE None

\* Set.__init__ after its test of len(items): self.ranges of the items that
\* are no Set, then of those that are
Set_init_ranges(items) ==
    LET created == [i \in 1..Len(items) |->
                      IF items[i].t = "Set" THEN <<>>
                      ELSE LET r == SetRange_create(items[i])
                           IN  IF r = None THEN <<None>> ELSE <<r>>]
        merged == [i \in 1..Len(items) |->
                      IF items[i].t = "Set" THEN items[i].set.ranges ELSE <<>>]
    IN  IF \E i \in 1..Len(items) : created[i] = <<None>>
        THEN Raised("ValueError")
        ELSE Returned(MkSet(Concat([i \in 1..Len(items) |->
                                        IF created[i] = <<>> THEN <<>>
                                        ELSE created[i][1]])
                            \o Concat(merged)))

\* Set.__init__(*items)
Set_init(items) ==
    IF Len(items) = 0 THEN Raised("ValueError") ELSE Set_init_ranges(items)

----------------------------------------------------------------------------
(* uri_regex.py: the rules, of which the model holds those of _rfc_names   *)
(* below, and get_regex with its lru_cache.                                *)

ALPHA ==
    Set_init(<<TupleArg(<<StrArg("a"), StrArg("z")>>),
               TupleArg(<<StrArg("A"), StrArg("Z")>>)>>).node

DIGIT == Set_init(<<TupleArg(<<StrArg("0"), StrArg("9")>>)>>).node

HEXDIG ==
    Set_init(<<TupleArg(<<StrArg("a"), StrArg("f")>>),
               TupleArg(<<StrArg("A"), StrArg("F")>>), SetArg(DIGIT)>>).node

path_empty == Literal_init(<<>>).node

h16 == Repeat_init(HEXDIG, Some(1), Some(4), None).node

port == ZeroOrMore_init(DIGIT).node

scheme ==
    BaseSequence_init(
        "Sequence",
        <<ALPHA,
          ZeroOrMore_init(Set_init(<<SetArg(ALPHA), SetArg(DIGIT), StrArg("+"),
                                     StrArg("-"), StrArg(".")>>).node).node>>
    ).node

\* dec_octet whose last alternative ends in any digit
dec_octet_to_259 ==
    BaseSequence_init(
        "Choice",
        <<DIGIT,
          BaseSequence_init(
              "Sequence",
              <<Set_init(<<TupleArg(<<IntArg(49), IntArg(57)>>)>>).node,
                DIGIT>>).node,
          BaseSequence_init(
              "Sequence",
              <<Literal_init(<<"1">>).node,
                Repeat_init(DIGIT, None, None, Some(2)).node>>).node,
          BaseSequence_init(
              "Sequence",
              <<Literal_init(<<"2">>).node,
                Set_init(<<TupleArg(<<IntArg(48), IntArg(52)>>)>>).node,
                DIGIT>>).node,
          BaseSequence_init(
              "Sequence", <<Literal_init(<<"2", "5">>).node, DIGIT>>).node>>
    ).node

dec_octet ==
    BaseSequence_init(
        "Choice",
        <<DIGIT,
          BaseSequence_init(
              "Sequence",
              <<Set_init(<<TupleArg(<<IntArg(49), IntArg(57)>>)>>).node,
                DIGIT>>).node,
          BaseSequence_init(
              "Sequence",
              <<Literal_init(<<"1">>).node,
                Repeat_init(DIGIT, None, None, Some(2)).node>>).node,
          BaseSequence_init(
              "Sequence",
              <<Literal_init(<<"2">>).node,
                Set_init(<<TupleArg(<<IntArg(48), IntArg(52)>>)>>).node,
                DIGIT>>).node,
          BaseSequence_init(
              "Sequence",
              <<Literal_init(<<"2", "5">>).node,
                Set_init(<<TupleArg(<<IntArg(48), IntArg(53)>>)>>).node>>).node>>
    ).node

\* the entries of _rfc_names for scheme, port, h16, path-empty and DIGIT
_rfc_names ==
    ("scheme" :> scheme) @@ ("port" :> port) @@ ("h16" :> h16) @@
    ("path-empty" :> path_empty) @@ ("DIGIT" :> DIGIT)

\* lru_cache(maxsize=len(_rfc_names)) with one rule fewer
maxsize_one_short == Cardinality(DOMAIN _rfc_names) - 1

\* lru_cache(maxsize=len(_rfc_names))
maxsize == Cardinality(DOMAIN _rfc_names)

MaxCompiles == 2

\* a compiled pattern: which object it is, its pattern, and what the host
\* read in it
NoMatcher ==
    [id |-> [name |-> "", generation |-> 0], pattern |-> <<>>, regex |-> <<>>]

\* the compiled pattern re.compile returned for rule_name, or the re.error
\* it raised
Compiled(rule_name, pattern, regex) ==
    IF ~regex.ok
    THEN [raised |-> "re.error", message |-> <<regex.err>>,
          matcher |-> NoMatcher]
    ELSE [raised |-> "", message |-> <<>>,
          matcher |-> [id |-> [name |-> rule_name,
                               generation |-> compiled[rule_name] + 1],
                       pattern |-> pattern, regex |-> regex.val]]

\* Regex.compile() of wrapped
CompileWrapped(rule_name, wrapped) ==
    Compiled(rule_name, render(wrapped), compile(wrapped))

\* the message of the ValueError without the name put in
UnknownRuleName_unformatted(rule_name) == <<"Unknown rule name: {0}">>

\* "Unknown rule name: {0}".format(rule_name): the text and the name
UnknownRuleName(rule_name) == <<"Unknown rule name: ", rule_name>>

\* the body of get_regex
get_regex_body(rule_name) ==
    IF rule_name \notin DOMAIN _rfc_names
    THEN [raised |-> "ValueError", message |-> UnknownRuleName(rule_name),
          matcher |-> NoMatcher]
    ELSE CompileWrapped(
             rule_name,
             BaseSequence_init("Sequence",
                               <<StandAlone_init("Start").node,
                                 _rfc_names[rule_name],
                                 StandAlone_init("End").node>>).node)

\* where the cache holds key, 0 when it does not
CacheIndex(key) ==
    IF \E i \in 1..Len(cache) : cache[i].key = key
    THEN CHOOSE i \in 1..Len(cache) : cache[i].key = key
    ELSE 0

\* a hit: the entry becomes the most recently used
CacheHit(i) ==
    [raised |-> "", message |-> <<>>, matcher |-> cache[i].result,
     cache |-> SubSeq(cache, 1, i - 1) \o SubSeq(cache, i + 1, Len(cache))
               \o <<cache[i]>>,
     compiled |-> compiled]

\* a miss: what the body returned is stored, in the place of the least
\* recently used entry when the cache is full; what it raised is not
CacheMiss(key, r) ==
    IF r.raised # ""
    THEN [raised |-> r.raised, message |-> r.message, matcher |-> NoMatcher,
          cache |-> cache, compiled |-> compiled]
    ELSE [raised |-> "", message |-> <<>>, matcher |-> r.matcher,
          cache |-> (IF Len(cache) >= maxsize THEN Tail(cache) ELSE cache)
                    \o <<[key |-> key, result |-> r.matcher]>>,
          compiled |-> [compiled EXCEPT ![key] = @ + 1]]

\* get_regex(rule_name) through lru_cache: what it returns or raises, and
\* the cache and the count of compilations after it
get_regex(rule_name) ==
    IF CacheIndex(rule_name) # 0 THEN CacheHit(CacheIndex(rule_name))
    ELSE CacheMiss(rule_name, get_regex_body(rule_name))

----------------------------------------------------------------------------
(* The declaration phase: code that builds nodes bottom-up, as             *)
(* uri_regex.py and the tests do, and renders them. pool holds the nodes   *)
(* built and not yet used in a larger one; a composite takes the newest    *)
(* nodes of pool as its expressions. The pool never holds more nodes than  *)
(* one composite can take.                                                 *)

MaxNodes == 5
MaxArity == 2

RECURSIVE NodeCount(_)
RECURSIVE NodeCountAll(_)
NodeCount(node) == 1 + NodeCountAll(node.expressions)
NodeCountAll(nodes) ==
    IF Len(nodes) = 0 THEN 0
    ELSE NodeCount(nodes[1]) + NodeCountAll(Tail(nodes))

NoOut ==
    [op |-> "", raised |-> "", node |-> BlankNode, rendered |-> <<>>,
     rendered_singular |-> <<>>, rendered_non_expansive |-> <<>>,
     singular |-> FALSE, expansive |-> FALSE, operator |-> <<>>,
     args |-> <<>>, range |-> None, result |-> FALSE, message |-> ""]

\* the newest k nodes of the pool
Newest(k) == SubSeq(pool, Len(pool) - k + 1, Len(pool))

\* a call of the constructor of class cls whose arguments are the newest k
\* nodes of the pool; args are the arguments of a Set
Construct(cls, args, result, k) ==
    /\ NodeCountAll(pool) < MaxNodes
    /\ Len(pool) - k < MaxArity
    /\ IF result.raised = ""
       THEN /\ pool' = Append(SubSeq(pool, 1, Len(pool) - k), result.node)
            /\ out' = [NoOut EXCEPT !.op = cls, !.node = result.node,
                                    !.args = args]
       ELSE /\ pool' = pool
            /\ out' = [NoOut EXCEPT !.op = cls, !.raised = result.raised,
                                    !.args = args]
    /\ UNCHANGED <<cache, got, matched, compiled, inlining, racing, inserting>>

NewLiteral(text) == Construct("Literal", <<>>, Literal_init(text), 0)

NewStandAlone(kind) == Construct(kind, <<>>, StandAlone_init(kind), 0)

NewSet(items) == Construct("Set", items, Set_init(items), 0)

\* Set(*before, set, *after), set being the newest node of the pool
NewSetOfSet(before, after) ==
    /\ Len(pool) >= 1
    /\ pool[Len(pool)].kind = "Set"
    /\ Construct("Set", before \o <<SetArg(pool[Len(pool)])>> \o after,
                 Set_init(before \o <<SetArg(pool[Len(pool)])>> \o after), 1)

NewSequence(k) ==
    /\ k <= Len(pool)
    /\ Construct("Sequence", <<>>, BaseSequence_init("Sequence", Newest(k)), k)

NewChoice(k) ==
    /\ k <= Len(pool)
    /\ Construct("Choice", <<>>, BaseSequence_init("Choice", Newest(k)), k)

NewCapture(k, name) ==
    /\ k <= Len(pool)
    /\ Construct("Capture", <<NameArg(name)>>, Capture_init(Newest(k), name), k)

NewRepeat(min, max, count) ==
    /\ Len(pool) >= 1
    /\ Construct("Repeat",
                 <<OptionalArg(min), OptionalArg(max), OptionalArg(count)>>,
                 Repeat_init(pool[Len(pool)], min, max, count), 1)

NewZeroOrMore ==
    /\ Len(pool) >= 1
    /\ Construct("ZeroOrMore", <<>>, ZeroOrMore_init(pool[Len(pool)]), 1)

NewOneOrMore ==
    /\ Len(pool) >= 1
    /\ Construct("OneOrMore", <<>>, OneOrMore_init(pool[Len(pool)]), 1)

NewOptional ==
    /\ Len(pool) >= 1
    /\ Construct("Optional", <<>>, Optional_init(pool[Len(pool)]), 1)

\* what render(), render_singular(), render_non_expansive(), is_singular(),
\* is_expansive() and, of a Repeat, operator return on node, or what the
\* first of them raises
RenderCalls(node) ==
    IF render_raises(node)
    THEN [NoOut EXCEPT !.op = "render", !.raised = "ValueError",
                       !.node = node]
    ELSE [NoOut EXCEPT
            !.op = "render", !.node = node,
            !.rendered = render(node),
            !.rendered_singular = render_singular(node),
            !.rendered_non_expansive = render_non_expansive(node),
            !.singular = is_singular(node),
            !.expansive = is_expansive(node),
            !.operator = IF node.kind = "Repeat" THEN Repeat_operator(node)
                         ELSE <<>>]

\* the calls on a finished expression: the one node of the pool
CallRender ==
    /\ Len(pool) = 1
    /\ out' = RenderCalls(pool[1])
    /\ UNCHANGED <<pool, cache, got, matched, compiled, inlining, racing, inserting>>

NoCall ==
    [op |-> "", raised |-> "", message |-> <<>>, name |-> "",
     matcher |-> NoMatcher]
NoMatch ==
    [node |-> BlankNode, text |-> <<>>, raised |-> "", result |-> FALSE]

----------------------------------------------------------------------------
(* InlineContext. An InlineContextToken is the number of the object: the   *)
(* n-th token made is n, and 0 is an object that is no token of the stack  *)
(* (None, or a token made by the caller).                                  *)

\* InlineContext(): the fields' default factories
InlineContext_init == [dereferenced_urls |-> <<>>, url_context_stack |-> <<>>]

\* InlineContext.url_in_context
url_in_context(self, url) ==
    \E i \in 1..Len(self.url_context_stack) :
        self.url_context_stack[i].url = url

\* what a call on the context gives: the exception raised, if any, the
\* context after the call, the value returned, and the tokens made so far
ContextResult(raised, self, token, made) ==
    [raised |-> raised, context |-> self, token |-> token, tokens |-> made]

\* the entry _push_context appends
ContextEntry(url, token, trigger_el) ==
    [url |-> url, token |-> token, trigger_el |-> trigger_el]

\* _push_context that does not look for the url on the stack
push_context_unchecked(self, made, url, trigger_el) ==
    IF trigger_el = None /\ Len(self.url_context_stack) # 0
    THEN ContextResult("ValueError", self, 0, made)
    ELSE ContextResult(
             "",
             [self EXCEPT !.url_context_stack =
                 Append(@, ContextEntry(url, made + 1, trigger_el))],
             made + 1, made + 1)

\* InlineContext._push_context; made is the number of tokens made before
push_context(self, made, url, trigger_el) ==
    IF trigger_el = None /\ Len(self.url_context_stack) # 0
    THEN ContextResult("ValueError", self, 0, made)
    ELSE IF url_in_context(self, url)
    THEN ContextResult("SchemaIncludesSelfError", self, 0, made)
    ELSE ContextResult(
             "",
             [self EXCEPT !.url_context_stack =
                 Append(@, ContextEntry(url, made + 1, trigger_el))],
             made + 1, made + 1)

\* the stack without its last entry: list.pop()
Popped(self) ==
    [self EXCEPT !.url_context_stack = SubSeq(@, 1, Len(@) - 1)]

\* _pop_context that compares the url only
pop_context_by_url(self, made, url, token) ==
    IF Len(self.url_context_stack) = 0
    THEN ContextResult("ValueError", self, 0, made)
    ELSE LET head == self.url_context_stack[Len(self.url_context_stack)]
         IN  IF head.url # url
             THEN ContextResult("ValueError", Popped(self), 0, made)
             ELSE ContextResult("", Popped(self), 0, made)

\* InlineContext._pop_context
pop_context(self, made, url, token) ==
    IF Len(self.url_context_stack) = 0
    THEN ContextResult("ValueError", self, 0, made)
    ELSE LET head == self.url_context_stack[Len(self.url_context_stack)]
         IN  IF <<head.url, head.token>> # <<url, token>>
             THEN ContextResult("ValueError", Popped(self), 0, made)
             ELSE ContextResult("", Popped(self), 0, made)

NoContextCall ==
    [op |-> "", url |-> None, token |-> 0, trigger_el |-> None,
     raised |-> "", before |-> InlineContext_init,
     at |-> InlineContext_init, returned |-> 0, content |-> ""]

\* what a call on the context leaves: the context and the record of the call
AfterContextCall(op, url, token, trigger_el, r) ==
    /\ context' = r.context
    /\ tokens' = r.tokens
    /\ called' = [op |-> op, url |-> url, token |-> token,
                  trigger_el |-> trigger_el, raised |-> r.raised,
                  before |-> context, at |-> context, returned |-> r.token,
                  content |-> ""]

\* context._push_context(url, trigger_el)
PushContext(url, trigger_el) ==
    /\ AfterContextCall("_push_context", url, 0, trigger_el,
                        push_context(context, tokens, url, trigger_el))
    /\ UNCHANGED <<racing, inserting, building, blocks, fetches>>

\* context._pop_context(url, token)
PopContext(url, token) ==
    /\ AfterContextCall("_pop_context", url, token, None,
                        pop_context(context, tokens, url, token))
    /\ UNCHANGED <<racing, inserting, building, blocks, fetches>>

\* an open block of track(): the generator of tracker(url) stands at its
\* yield and holds url and token; before is the context at the entry
TrackBlock(url, token, before) ==
    [url |-> url, token |-> token, before |-> before]

\* with context.track(url, trigger_el): the generator runs to its yield.
\* If _push_context raises, the block is not entered.
TrackEnter(url, trigger_el) ==
    LET r == push_context(context, tokens, url, trigger_el)
    IN  /\ AfterContextCall("track.enter", url, 0, trigger_el, r)
        /\ blocks' = IF r.raised = ""
                     THEN Append(blocks, TrackBlock(url, r.token, context))
                     ELSE blocks
        /\ UNCHANGED <<racing, inserting, building, fetches>>

\* the block left with a pop whatever ended its body
TrackExit_popping(raising) ==
    /\ blocks # <<>>
    /\ LET block == blocks[Len(blocks)]
           r == pop_context(context, tokens, block.url, block.token)
       IN  /\ context' = r.context
           /\ tokens' = r.tokens
           /\ called' = [op |-> "track.exit", url |-> block.url,
                         token |-> block.token, trigger_el |-> None,
                         raised |-> IF raising THEN "Exception" ELSE r.raised,
                         before |-> block.before, at |-> context,
                         returned |-> 0, content |-> ""]
    /\ blocks' = SubSeq(blocks, 1, Len(blocks) - 1)
    /\ UNCHANGED <<racing, inserting, building, fetches>>

\* the innermost block of track() is left. When its body ended normally
\* the generator goes on after the yield and calls _pop_context; when the
\* body raised, the exception is thrown into the generator at the yield,
\* which has no try around it, and nothing is popped. called.before is the
\* context at the entry of the block, called.at the context at its end.
TrackExit(raising) ==
    /\ blocks # <<>>
    /\ LET block == blocks[Len(blocks)]
           r == IF raising
                THEN ContextResult("Exception", context, 0, tokens)
                ELSE pop_context(context, tokens, block.url, block.token)
       IN  /\ context' = r.context
           /\ tokens' = r.tokens
           /\ called' = [op |-> "track.exit", url |-> block.url,
                         token |-> block.token, trigger_el |-> None,
                         raised |-> r.raised, before |-> block.before,
                         at |-> context, returned |-> 0, content |-> ""]
    /\ blocks' = SubSeq(blocks, 1, Len(blocks) - 1)
    /\ UNCHANGED <<racing, inserting, building, fetches>>

----------------------------------------------------------------------------
(* Inliner.dereference_url. What the handler of a url does is the world's: *)
(* response is what happens when the handler is asked: no handler takes    *)
(* the url, the handler raises, or it returns bytes.                       *)

NoHandler == [raised |-> "NoAvailableHandlerError", content |-> ""]
HandlerRaises == [raised |-> "DereferenceError", content |-> ""]
HandlerReturns(content) == [raised |-> "", content |-> content]

\* the index of url in dereferenced_urls, 0 if it is no key
DereferencedAt(self, url) ==
    IF \E i \in 1..Len(self.dereferenced_urls) :
          self.dereferenced_urls[i].url = url
    THEN CHOOSE i \in 1..Len(self.dereferenced_urls) :
            self.dereferenced_urls[i].url = url
    ELSE 0

\* InlineContext.has_been_dereferenced
has_been_dereferenced(self, url) == DereferencedAt(self, url) # 0

\* InlineContext.get_previous_dereference
get_previous_dereference(self, url) ==
    self.dereferenced_urls[DereferencedAt(self, url)].content

\* InlineContext.store_dereference_result, where url is no key and content
\* is bytes
store_dereference_result(self, url, content) ==
    [self EXCEPT !.dereferenced_urls =
        Append(@, [url |-> url, content |-> content])]

\* Inliner.parse_grammar_xml: the exception it raises on content, if any
parse_grammar_xml_raises(content) ==
    CASE content = "junk" -> "ParseError"
      [] content = "<html/>" -> "InvalidGrammarError"
      [] OTHER -> ""

\* what dereference_url gives: the exception raised, if any, the context
\* and the handler calls afterwards, and the content that was parsed
Dereferenced(raised, self, calls, content) ==
    [raised |-> raised, context |-> self, fetches |-> calls,
     content |-> content]

\* dereference_url that asks the handler every time
dereference_url_unstored(self, calls, url, response) ==
    IF response = NoHandler
    THEN Dereferenced(response.raised, self, calls, "")
    ELSE IF response.raised # ""
    THEN Dereferenced(response.raised, self,
                      Append(calls, [url |-> url, content |-> ""]), "")
    ELSE Dereferenced(
             parse_grammar_xml_raises(response.content),
             IF has_been_dereferenced(self, url) THEN self
             ELSE store_dereference_result(self, url, response.content),
             Append(calls, [url |-> url, content |-> response.content]),
             response.content)

\* Inliner.dereference_url(url, context); calls are the handler calls made
\* before
dereference_url(self, calls, url, response) ==
    IF has_been_dereferenced(self, url)
    THEN LET content == get_previous_dereference(self, url)
         IN  Dereferenced(parse_grammar_xml_raises(content), self, calls,
                          content)
    ELSE IF response = NoHandler
    THEN Dereferenced(response.raised, self, calls, "")
    ELSE IF response.raised # ""
    THEN Dereferenced(response.raised, self,
                      Append(calls, [url |-> url, content |-> ""]), "")
    ELSE Dereferenced(
             parse_grammar_xml_raises(response.content),
             store_dereference_result(self, url, response.content),
             Append(calls, [url |-> url, content |-> response.content]),
             response.content)

\* inliner.dereference_url(url, context)
DereferenceUrl(url, response) ==
    LET r == dereference_url(context, fetches, url, response)
    IN  /\ context' = r.context
        /\ fetches' = r.fetches
        /\ called' = [NoContextCall EXCEPT
                         !.op = "dereference_url", !.url = Some(url),
                         !.raised = r.raised, !.before = context,
                         !.at = context, !.content = r.content]
        /\ UNCHANGED <<racing, inserting, building, tokens, blocks>>

----------------------------------------------------------------------------
(* get_regex called from several threads. lru_cache looks the key up and   *)
(* returns on a hit in one step; on a miss it calls the body of get_regex  *)
(* with no lock held, so other threads run while the rule is compiled; and *)
(* when the body has returned it looks the key up again, and stores the    *)
(* result only if no other thread has stored one meanwhile.                *)

MaxThreads == 2
MaxCalls == 4

Threads == 1..MaxThreads

\* what the body of get_regex returned to a thread, before there is any
NoBody == [raised |-> "", message |-> <<>>, matcher |-> NoMatcher]

\* a thread that has not called get_regex: pc is where the thread is in its
\* call, name the rule it asks for, body what the body returned to it,
\* returned and raised how its last call ended, hit whether that call found
\* the entry, later whether a call for the name had returned before this
\* one began, finished the names its calls have returned for
NoThread ==
    [pc |-> "idle", name |-> "", body |-> NoBody, returned |-> NoMatcher,
     raised |-> "", calls |-> 0, hit |-> FALSE, later |-> FALSE,
     finished |-> {}]

RECURSIVE CallsBegun(_)
\* how many calls the threads 1..t have begun
CallsBegun(t) ==
    IF t = 0 THEN 0
    ELSE CallsBegun(t - 1) + threads[t].calls
         + (IF threads[t].pc = "idle" THEN 0 ELSE 1)

\* lru_cache after the body has returned r, with the key stored by another
\* thread or not: r is stored last, whatever the cache holds
CacheStore_unchecked(key, r) ==
    [matcher |-> r.matcher,
     cache |-> (IF Len(cache) >= maxsize THEN Tail(cache) ELSE cache)
               \o <<[key |-> key, result |-> r.matcher]>>]

\* lru_cache after the body has returned r: if the key is in the cache by
\* now, the cache is left as it is and r is returned; if not, r is stored
\* as the most recently used, in the place of the least recently used entry
\* when the cache is full
CacheStore(key, r) ==
    IF CacheIndex(key) # 0
    THEN [matcher |-> r.matcher, cache |-> cache]
    ELSE [matcher |-> r.matcher,
          cache |-> (IF Len(cache) >= maxsize THEN Tail(cache) ELSE cache)
                    \o <<[key |-> key, result |-> r.matcher]>>]

\* a thread calls get_regex(rule_name): on a hit the call returns the entry
\* at once, on a miss the thread goes on to the body
ThreadCall(t, rule_name) ==
    /\ threads[t].pc = "idle"
    /\ CallsBegun(MaxThreads) < MaxCalls
    /\ LET i == CacheIndex(rule_name)
           later == \E u \in Threads : rule_name \in threads[u].finished
       IN  IF i # 0
           THEN /\ cache' = CacheHit(i).cache
                /\ threads' =
                       [threads EXCEPT
                            ![t] = [@ EXCEPT !.name = rule_name,
                                             !.body = NoBody,
                                             !.returned = cache[i].result,
                                             !.raised = "",
                                             !.calls = @ + 1,
                                             !.hit = TRUE,
                                             !.later = later,
                                             !.finished =
                                                 @ \cup {rule_name}]]
           ELSE /\ cache' = cache
                /\ threads' =
                       [threads EXCEPT
                            ![t] = [@ EXCEPT !.pc = "body",
                                             !.name = rule_name,
                                             !.body = NoBody,
                                             !.returned = NoMatcher,
                                             !.raised = "",
                                             !.hit = FALSE,
                                             !.later = later]]
    /\ UNCHANGED <<pool, out, got, matched, compiled, inlining, inserting>>

\* the body of get_regex runs in the thread: what it raises leaves the call
\* at once, what it returns goes back to lru_cache
ThreadBody(t) ==
    /\ threads[t].pc = "body"
    /\ LET r == get_regex_body(threads[t].name)
       IN  IF r.raised # ""
           THEN /\ compiled' = compiled
                /\ threads' =
                       [threads EXCEPT
                            ![t] = [@ EXCEPT !.pc = "idle",
                                             !.raised = r.raised,
                                             !.calls = @ + 1]]
           ELSE /\ compiled' = [compiled EXCEPT ![threads[t].name] = @ + 1]
                /\ threads' =
                       [threads EXCEPT
                            ![t] = [@ EXCEPT !.pc = "store",
                                             !.body = r]]
    /\ UNCHANGED <<pool, out, cache, got, matched, inlining, inserting>>

\* lru_cache takes what the body returned, and the call returns
ThreadStore(t) ==
    /\ threads[t].pc = "store"
    /\ LET s == CacheStore(threads[t].name, threads[t].body)
       IN  /\ cache' = s.cache
           /\ threads' =
                  [threads EXCEPT
                       ![t] = [@ EXCEPT !.pc = "idle",
                                        !.returned = s.matcher,
                                        !.calls = @ + 1,
                                        !.finished =
                                            @ \cup {threads[t].name}]]
    /\ UNCHANGED <<pool, out, got, matched, compiled, inlining, inserting>>

----------------------------------------------------------------------------
(* DeferredXmlInsertion (rnginline/__init__.py). An element is its tag,    *)
(* the pieces of its text, its children and the pieces of its tail; an     *)
(* element of a tree is named by its path, the positions to follow from    *)
(* the root. A piece of text is a string, and a uuid marker is a piece.    *)

\* etree.Element(tag) with its text, children and tail
Element(tag, text, kids, tail) ==
    [tag |-> tag, text |-> text, kids |-> kids, tail |-> tail]

\* no element
NoElement == Element("", <<>>, <<>>, <<>>)

RECURSIVE ElementAt(_, _)
\* the element of the tree at path
ElementAt(tree, path) ==
    IF path = <<>> THEN tree
    ELSE ElementAt(tree.kids[Head(path)], Tail(path))

RECURSIVE PathsOf(_)
\* the paths of the elements of the tree
PathsOf(tree) ==
    {<<>>} \cup
    UNION {{<<i>> \o p : p \in PathsOf(tree.kids[i])} :
               i \in 1..Len(tree.kids)}

RECURSIVE WithElementAt(_, _, _)
\* the tree with el in the place of the element at path
WithElementAt(tree, path, el) ==
    IF path = <<>> THEN el
    ELSE [tree EXCEPT
              !.kids[Head(path)] = WithElementAt(@, Tail(path), el)]

\* all but the last position of a path that is not the root's
ParentPath(path) == SubSeq(path, 1, Len(path) - 1)

RECURSIVE WithoutElementAt(_, _)
\* parent.remove(el) for the element at path: the element goes, and its
\* tail with it
WithoutElementAt(tree, path) ==
    IF Len(path) = 1
    THEN [tree EXCEPT
              !.kids = SubSeq(@, 1, path[1] - 1)
                       \o SubSeq(@, path[1] + 1, Len(@))]
    ELSE [tree EXCEPT
              !.kids[Head(path)] = WithoutElementAt(@, Tail(path))]

\* a piece of the serialised document: a start tag, an end tag or text
Token(k, v) == [k |-> k, v |-> v]

\* the pieces of a text
TextTokens(text) == [i \in 1..Len(text) |-> Token("text", text[i])]

RECURSIVE tostring(_)
RECURSIVE tostring_all(_)
\* etree.tostring(el, encoding="unicode"): the element, what it holds, and
\* its tail
tostring(el) ==
    <<Token("start", el.tag)>> \o TextTokens(el.text)
    \o tostring_all(el.kids)
    \o <<Token("end", el.tag)>> \o TextTokens(el.tail)

\* the children one after another
tostring_all(kids) ==
    IF kids = <<>> THEN <<>>
    ELSE tostring(Head(kids)) \o tostring_all(Tail(kids))

RECURSIVE TextFrom(_, _)
\* the text that begins at position i of the document
TextFrom(xml, i) ==
    IF i <= Len(xml) /\ xml[i].k = "text"
    THEN <<xml[i].v>> \o TextFrom(xml, i + 1)
    ELSE <<>>

RECURSIVE ParseElement(_, _)
RECURSIVE ParseKids(_, _, _)
\* the element whose start tag is at position i of the document, and the
\* position after its tail
ParseElement(xml, i) ==
    IF i > Len(xml) \/ xml[i].k # "start"
    THEN [ok |-> FALSE, el |-> NoElement, next |-> i]
    ELSE LET text == TextFrom(xml, i + 1)
             kids == ParseKids(xml, i + 1 + Len(text), <<>>)
             j == kids.next
         IN  IF ~kids.ok \/ j > Len(xml) \/ xml[j] # Token("end", xml[i].v)
             THEN [ok |-> FALSE, el |-> NoElement, next |-> j]
             ELSE LET tail == TextFrom(xml, j + 1)
                  IN  [ok |-> TRUE,
                       el |-> Element(xml[i].v, text, kids.els, tail),
                       next |-> j + 1 + Len(tail)]

\* the elements that begin at position i, after those read already
ParseKids(xml, i, els) ==
    IF i <= Len(xml) /\ xml[i].k = "start"
    THEN LET kid == ParseElement(xml, i)
         IN  IF ~kid.ok THEN [ok |-> FALSE, els |-> els, next |-> kid.next]
             ELSE ParseKids(xml, kid.next, Append(els, kid.el))
    ELSE [ok |-> TRUE, els |-> els, next |-> i]

\* etree.fromstring(xml): the root element of the document, or the
\* XMLSyntaxError of a text that is no document of one element
fromstring(xml) ==
    LET root == ParseElement(xml, 1)
    IN  IF root.ok /\ root.next = Len(xml) + 1 /\ root.el.tail = <<>>
        THEN [raised |-> "", el |-> root.el]
        ELSE [raised |-> "XMLSyntaxError", el |-> NoElement]

\* where piece is in the text of the document, 0 if nowhere
find(xml, piece) ==
    IF \E i \in 1..Len(xml) : xml[i] = Token("text", piece)
    THEN CHOOSE i \in 1..Len(xml) :
             /\ xml[i] = Token("text", piece)
             /\ \A j \in 1..(i - 1) : xml[j] # Token("text", piece)
    ELSE 0

\* root_xml.replace(marker, el_xml, 1)
replace_first(root_xml, marker, el_xml) ==
    IF find(root_xml, marker) = 0 THEN root_xml
    ELSE SubSeq(root_xml, 1, find(root_xml, marker) - 1) \o el_xml
         \o SubSeq(root_xml, find(root_xml, marker) + 1, Len(root_xml))

\* an object given to the insertion methods: a DeferredXmlInsertion
\* (is_dxi), or an element, which is held as root_el
Insertable(is_dxi, root_el, root_replacement, pending_insertions,
           insertions_performed) ==
    [is_dxi |-> is_dxi, root_el |-> root_el,
     root_replacement |-> root_replacement,
     pending_insertions |-> pending_insertions,
     insertions_performed |-> insertions_performed]

\* an element as an object to insert
AsElement(el) == Insertable(FALSE, el, <<>>, <<>>, FALSE)

\* DeferredXmlInsertion(root_el)
DeferredXmlInsertion_init(root_el) ==
    Insertable(TRUE, root_el, <<>>, <<>>, FALSE)

\* no DeferredXmlInsertion made yet
NoDxi == AsElement(NoElement)

\* uuid.uuid4().hex: the next marker, one that no tree holds
Uuids == <<"u1", "u2", "u3", "u4", "u5", "u6">>
uuid4(made) == Uuids[made + 1]

\* what a registering call leaves: the exception raised, the object after
\* it, and the count of markers made
Registered(raised, self, made) ==
    [raised |-> raised, self |-> self, markers |-> made]

\* self._register_insertion(target_el, insert_after, el): a new marker is
\* put at the end of the tail of target_el, or of its text, and recorded
\* with el
_register_insertion(self, made, target_el, insert_after, el) ==
    LET marker == uuid4(made)
        target == ElementAt(self.root_el, target_el)
        marked == IF insert_after
                  THEN [target EXCEPT !.tail = @ \o <<marker>>]
                  ELSE [target EXCEPT !.text = @ \o <<marker>>]
    IN  Registered(
            "",
            [self EXCEPT
                 !.root_el = WithElementAt(@, target_el, marked),
                 !.pending_insertions =
                     Append(@, [marker |-> marker, el |-> el])],
            made + 1)

\* self.register_insert(parent, index, el)
register_insert(self, made, parent, index, el) ==
    LET children == ElementAt(self.root_el, parent).kids
    IN  IF Len(children) = 0
        THEN _register_insertion(self, made, parent, FALSE, el)
        ELSE IF index >= Len(children)
        THEN _register_insertion(self, made, parent \o <<Len(children)>>,
                                 TRUE, el)
        ELSE IF index = 0
        THEN _register_insertion(self, made, parent, FALSE, el)
        ELSE _register_insertion(self, made, parent \o <<index>>, TRUE, el)

\* self.register_replace(old_el, new_el): the root is only noted as
\* replaced, once; any other element is taken out of the tree at once, and
\* new_el registered after the element before it, or first in its parent
register_replace(self, made, old_el, new_el) ==
    IF old_el = <<>>
    THEN IF self.root_replacement # <<>>
         THEN Registered("ValueError", self, made)
         ELSE Registered("", [self EXCEPT !.root_replacement = <<new_el>>],
                         made)
    ELSE LET registered ==
                 IF old_el[Len(old_el)] > 1
                 THEN _register_insertion(
                          self, made,
                          ParentPath(old_el) \o <<old_el[Len(old_el)] - 1>>,
                          TRUE, new_el)
                 ELSE _register_insertion(self, made, ParentPath(old_el),
                                          FALSE, new_el)
         IN  [registered EXCEPT
                  !.self.root_el = WithoutElementAt(@, old_el)]

\* _prevent_repeated_insertions that raises and never sets the flag
_prevent_repeated_insertions_unset(self) ==
    IF self.insertions_performed # FALSE
    THEN [raised |-> "AssertionError", self |-> self]
    ELSE [raised |-> "", self |-> self]

\* self._prevent_repeated_insertions()
_prevent_repeated_insertions(self) ==
    IF self.insertions_performed # FALSE
    THEN [raised |-> "AssertionError", self |-> self]
    ELSE [raised |-> "",
          self |-> [self EXCEPT !.insertions_performed = TRUE]]

\* what _perform_insertions_internal leaves: the exception raised, the
\* string returned, and the object after the call
Merged(raised, xml, self) == [raised |-> raised, xml |-> xml, self |-> self]

RECURSIVE _perform_insertions_internal(_)
RECURSIVE _get_xml_string(_)
RECURSIVE MergePending(_, _, _)

\* self._get_xml_string(el)
_get_xml_string(el) ==
    IF el.is_dxi THEN _perform_insertions_internal(el)
    ELSE Merged("", tostring(el.root_el), el)

\* the loop of _perform_insertions_internal from the i-th pending insertion
\* on: each marker is replaced, once, by the string of its element
MergePending(self, i, root_xml) ==
    IF i > Len(self.pending_insertions) THEN Merged("", root_xml, self)
    ELSE LET marker == self.pending_insertions[i].marker
             el_xml == _get_xml_string(self.pending_insertions[i].el)
             after == [self EXCEPT
                           !.pending_insertions[i].el = el_xml.self]
             merged_xml == replace_first(root_xml, marker, el_xml.xml)
         IN  IF el_xml.raised # "" THEN Merged(el_xml.raised, <<>>, after)
             ELSE IF find(root_xml, marker) = 0
             THEN Merged("AssertionError", <<>>, after)
             ELSE MergePending(after, i + 1, merged_xml)

\* self._perform_insertions_internal()
_perform_insertions_internal(self) ==
    LET prevented == _prevent_repeated_insertions(self)
        self1 == prevented.self
    IN  IF prevented.raised # "" THEN Merged(prevented.raised, <<>>, self1)
        ELSE IF ~(self1.root_replacement = <<>>
                  \/ Len(self1.pending_insertions) = 0)
        THEN Merged("AssertionError", <<>>, self1)
        ELSE IF self1.root_replacement # <<>>
        THEN LET replaced == _get_xml_string(self1.root_replacement[1])
             IN  Merged(replaced.raised, replaced.xml,
                        [self1 EXCEPT !.root_replacement = <<replaced.self>>])
        ELSE MergePending(self1, 1, tostring(self1.root_el))

\* what perform_insertions leaves: the exception raised, the element
\* returned, and the object after the call
Performed(raised, el, self) == [raised |-> raised, el |-> el, self |-> self]

\* self.perform_insertions()
perform_insertions(self) ==
    IF Len(self.pending_insertions) = 0
    THEN LET prevented == _prevent_repeated_insertions(self)
         IN  IF prevented.raised # ""
             THEN Performed(prevented.raised, NoElement, prevented.self)
             ELSE Performed("", prevented.self.root_el, prevented.self)
    ELSE LET merged_xml == _perform_insertions_internal(self)
         IN  IF merged_xml.raised # ""
             THEN Performed(merged_xml.raised, NoElement, merged_xml.self)
             ELSE Performed(fromstring(merged_xml.xml).raised,
                            fromstring(merged_xml.xml).el, merged_xml.self)

\* a call on the DeferredXmlInsertion, as inserted records it: the method,
\* the element and the index it was given, the object to insert, the
\* exception raised, the tree before the call, and the element returned
InsertionCall(op, at, index, el, raised, before, returned) ==
    [op |-> op, at |-> at, index |-> index, el |-> el, raised |-> raised,
     before |-> before, returned |-> returned]

\* dxi = DeferredXmlInsertion(root_el)
NewDxi(root_el) ==
    /\ ~dxi.is_dxi
    /\ dxi' = DeferredXmlInsertion_init(root_el)
    /\ UNCHANGED <<markers, inserted, building, inlining, racing>>

\* dxi.register_insert(parent, index, el)
RegisterInsert(parent, index, el) ==
    /\ dxi.is_dxi
    /\ parent \in PathsOf(dxi.root_el)
    /\ LET r == register_insert(dxi, markers, parent, index, el)
       IN  /\ dxi' = r.self
           /\ markers' = r.markers
           /\ inserted' =
                  Append(inserted,
                         InsertionCall("register_insert", parent, index, el,
                                       r.raised, dxi.root_el, NoElement))
    /\ UNCHANGED <<building, inlining, racing>>

\* dxi.register_replace(old_el, new_el)
RegisterReplace(old_el, new_el) ==
    /\ dxi.is_dxi
    /\ old_el \in PathsOf(dxi.root_el)
    /\ LET r == register_replace(dxi, markers, old_el, new_el)
       IN  /\ dxi' = r.self
           /\ markers' = r.markers
           /\ inserted' =
                  Append(inserted,
                         InsertionCall("register_replace", old_el, 0, new_el,
                                       r.raised, dxi.root_el, NoElement))
    /\ UNCHANGED <<building, inlining, racing>>

\* dxi.perform_insertions()
PerformInsertions ==
    /\ dxi.is_dxi
    /\ LET r == perform_insertions(dxi)
       IN  /\ dxi' = r.self
           /\ inserted' =
                  Append(inserted,
                         InsertionCall("perform_insertions", <<>>, 0, NoDxi,
                                       r.raised, dxi.root_el, r.el))
    /\ UNCHANGED <<markers, building, inlining, racing>>

----------------------------------------------------------------------------

Init ==
    /\ pool = <<>>
    /\ out = NoOut
    /\ cache = <<>>
    /\ got = NoCall
    /\ matched = NoMatch
    /\ compiled = [name \in DOMAIN _rfc_names |-> 0]
    /\ context = InlineContext_init
    /\ tokens = 0
    /\ blocks = <<>>
    /\ called = NoContextCall
    /\ fetches = <<>>
    /\ threads = [t \in Threads |-> NoThread]
    /\ dxi = NoDxi
    /\ markers = 0
    /\ inserted = <<>>

(* The expressions the tree specification builds from. *)
TreeLiterals == {<<"a", "b">>, <<"|">>}
TreeSets == {<<StrArg("|")>>}
TreeStandAlones == {"Start"}
\* Capture(e, name="n") and Capture(e1, ..., ek)
TreeCaptures == {<<1, Some(<<"n">>)>>} \cup {<<k, None>> : k \in 2..MaxArity}
TreeRepeats == {<<Some(2), Some(4), None>>}

Next ==
    \/ \E text \in TreeLiterals : NewLiteral(text)
    \/ \E kind \in TreeStandAlones : NewStandAlone(kind)
    \/ \E items \in TreeSets : NewSet(items)
    \/ \E k \in 1..MaxArity : NewSequence(k)
    \/ \E k \in 1..MaxArity : NewChoice(k)
    \/ \E c \in TreeCaptures : NewCapture(c[1], c[2])
    \/ \E r \in TreeRepeats : NewRepeat(r[1], r[2], r[3])
    \/ CallRender

Spec == Init /\ [][Next]_vars

----------------------------------------------------------------------------
(* Repeat and its subclasses built with every combination of min, max and  *)
(* count, one inside another, over a Literal. After a call that raised     *)
(* nothing more is built.                                                  *)

MaxRep == 3
MaxRepeatNodes == 3

RepeatLiterals == {<<"a">>, <<"a", "b">>}
\* None, or an int; -1 is what the assertions of __init__ are there for
RepeatArgs == {None} \cup {Some(n) : n \in -1..MaxRep}

NextRepeat ==
    \/ /\ NodeCountAll(pool) < MaxRepeatNodes
       /\ out.raised = ""
       /\ \/ \E text \in RepeatLiterals : NewLiteral(text)
          \/ \E min \in RepeatArgs, max \in RepeatArgs, count \in RepeatArgs :
                NewRepeat(min, max, count)
          \/ NewZeroOrMore
          \/ NewOneOrMore
          \/ NewOptional
    \/ CallRender

SpecRepeat == Init /\ [][NextRepeat]_vars

----------------------------------------------------------------------------
(* A Literal of any text over the metacharacters and two more characters,  *)
(* rendered, and run against test strings as the test module runs a test   *)
(* case: wrapped in Sequence(Start(), node, End()), compiled, matched      *)
(* from the start of the string, the match counting when it ends where the *)
(* string ends. One test string is run in a behaviour.                     *)

MaxLiteralLen == 2

LiteralChars ==
    {"\\", ".", "^", "$", "*", "+", "?", "{", "}", "[", "]", "|", "(", ")",
     "a", "\n"}

RECURSIVE ListsOf(_, _)
\* the lists of n elements of a set
ListsOf(elements, n) ==
    IF n = 0 THEN {<<>>}
    ELSE {<<e>> \o t : e \in elements, t \in ListsOf(elements, n - 1)}

LiteralTexts == UNION {ListsOf(LiteralChars, n) : n \in 0..MaxLiteralLen}

\* the characters a test string differs from the text by
TestChars(text) == {"a", "\\", "\n"} \cup {text[i] : i \in 1..Len(text)}

\* the strings a Literal of text is tested on: the text, its render, and the
\* text with one character dropped, put in or put for another
TestStrings(text) ==
    {text, Literal_render(MkLiteral(text))}
    \cup {SubSeq(text, 1, i - 1) \o SubSeq(text, i + 1, Len(text)) :
             i \in 1..Len(text)}
    \cup {SubSeq(text, 1, i) \o <<c>> \o SubSeq(text, i + 1, Len(text)) :
             i \in 0..Len(text), c \in TestChars(text)}
    \cup {[text EXCEPT ![i] = c] : i \in 1..Len(text), c \in TestChars(text)}

\* _TestCase.__init__ with wrap=True
TestCase_init(node) ==
    MkBaseSequence("Sequence",
                   <<MkStandAlone("Start"), node, MkStandAlone("End")>>)

\* what _TestString.run finds: match and match.end() == length. A pattern
\* can have matches that end at several places; which of them match() keeps
\* is left open.
TestString_run(node, regex, string) ==
    IF ~regex.ok
    THEN {[node |-> node, text |-> string, raised |-> "re.error",
           result |-> FALSE]}
    ELSE IF MatchAlternatives(regex.val, string, 1) = {}
    THEN {[node |-> node, text |-> string, raised |-> "", result |-> FALSE]}
    ELSE {[node |-> node, text |-> string, raised |-> "",
           result |-> (end = Len(string) + 1)] :
            end \in MatchAlternatives(regex.val, string, 1)}

\* _TestCase(node, string).run() for the node of the pool
RunTestCase(string) ==
    /\ Len(pool) = 1
    /\ matched' \in TestString_run(pool[1], compile(TestCase_init(pool[1])),
                                   string)
    /\ UNCHANGED <<pool, out, cache, got, compiled, inlining, racing, inserting>>

NextLiteral ==
    \/ /\ pool = <<>>
       /\ \E text \in LiteralTexts : NewLiteral(text)
    \/ CallRender
    \/ /\ Len(pool) = 1
       /\ matched = NoMatch
       /\ \E string \in TestStrings(pool[1].text) : RunTestCase(string)

SpecLiteral == Init /\ [][NextLiteral]_vars

----------------------------------------------------------------------------
(* Sets of characters, code points, pairs, SetRanges and Sets, the Set in  *)
(* a Set being the one built last; rendered, and run against one test      *)
(* string as the test module runs a test case, which ends the behaviour,  *)
(* as does a constructor that raises.                                      *)

MaxSetItems == 2
MaxRanges == 3

\* "^", "]", "\\", "-", chr(97), ("\\", "]"), ("]", "^"), SetRange(94, 97),
\* and two arguments that raise: a pair whose end is below its start, and a
\* triple
SetArgs ==
    {StrArg("^"), StrArg("]"), StrArg("\\"), StrArg("-"), IntArg(97),
     TupleArg(<<StrArg("\\"), IntArg(93)>>), SetRangeArg(SetRange(94, 97)),
     TupleArg(<<StrArg("]"), StrArg("^")>>),
     TupleArg(<<StrArg("a"), StrArg("^")>>),
     TupleArg(<<StrArg("a"), StrArg("a"), StrArg("a")>>)}

SetItemLists == UNION {ListsOf(SetArgs, n) : n \in 0..MaxSetItems}

\* the strings a Set is tested on: the characters of its arguments, some
\* more, and none
SetTestStrings ==
    {<<>>, <<"^">>, <<"]">>, <<"\\">>, <<"-">>, <<"a">>, <<"_">>, <<"[">>,
     <<"\n">>}

NextSet ==
    /\ matched = NoMatch
    /\ out.raised = ""
    /\ \/ /\ pool = <<>>
          /\ \E items \in SetItemLists : NewSet(items)
       \/ /\ Len(pool) = 1
          /\ \E items \in SetItemLists, at \in 0..MaxSetItems :
                /\ at <= Len(items)
                /\ Len(items) + Len(pool[1].ranges) <= MaxRanges
                /\ NewSetOfSet(SubSeq(items, 1, at),
                               SubSeq(items, at + 1, Len(items)))
       \/ CallRender
       \/ /\ Len(pool) = 1
          /\ \E string \in SetTestStrings : RunTestCase(string)

SpecSet == Init /\ [][NextSet]_vars

----------------------------------------------------------------------------
(* Lookups of rules by name, known and unknown, in any order, and then one *)
(* match of a text against a rule as uri.py does it.                       *)

MaxTextLen == 2

\* the names of the rules of _rfc_names, and the name the tests look up to
\* see the lookup fail, and another
RuleNames == DOMAIN _rfc_names \cup {"fjalksdjflas", "uri"}

RuleTexts ==
    UNION {ListsOf({"a", "1", ":", "\n"}, n) : n \in 0..MaxTextLen}

\* the state after a get_regex(rule_name) call whose outcome is r
AfterGetRegex(rule_name, r) ==
    /\ cache' = r.cache
    /\ compiled' = r.compiled
    /\ got' = [op |-> "get_regex", raised |-> r.raised,
               message |-> r.message, name |-> rule_name,
               matcher |-> r.matcher]

\* get_regex(rule_name)
GetRegex(rule_name) ==
    /\ rule_name \in DOMAIN _rfc_names => compiled[rule_name] < MaxCompiles
    /\ AfterGetRegex(rule_name, get_regex(rule_name))
    /\ UNCHANGED <<pool, out, matched, inlining, racing, inserting>>

\* bool(matcher.match(text)), for the matcher r holds, if it holds one
MatchOf(r, text) ==
    IF r.raised # ""
    THEN [node |-> BlankNode, text |-> text, raised |-> r.raised,
          result |-> FALSE]
    ELSE [node |-> BlankNode, text |-> text, raised |-> "",
          result |-> re_match(r.matcher.regex, text)]

\* uri._matches_uri_pattern_rule(rule, text)
MatchesUriPatternRule(rule, text) ==
    /\ rule \in DOMAIN _rfc_names => compiled[rule] < MaxCompiles
    /\ AfterGetRegex(rule, get_regex(rule))
    /\ matched' = MatchOf(get_regex(rule), text)
    /\ UNCHANGED <<pool, out, inlining, racing, inserting>>

NextRegex ==
    /\ matched = NoMatch
    /\ \/ \E rule_name \in RuleNames : GetRegex(rule_name)
       \/ \E rule \in RuleNames, text \in RuleTexts :
             MatchesUriPatternRule(rule, text)

SpecRegex == Init /\ [][NextRegex]_vars

----------------------------------------------------------------------------
(* SetRanges and Sets over code points inside and outside the range of    *)
(* chr(): SetRange(start, end), SetRange.create(item) and a.intersects(b)  *)
(* called directly, a Set built of characters, code points, pairs and the  *)
(* SetRange built last, put in another Set or in a Sequence, Capture or    *)
(* Repeat, and render. A call that raises ends the behaviour.              *)

MaxRangeNodes == 3
MaxRangeItems == 2
MaxPoint == 3

\* code points below the range of chr(), in it and above it
RangePoints == {-1, 97, 1114112}

\* the SetRange the last call returned, if it returned one
RangeBuilt ==
    IF out.op \in {"SetRange", "SetRange.create"} /\ out.range # None
    THEN {SetRangeArg(out.range[1])}
    ELSE {}

\* arguments of Set and of SetRange.create
RangeArgs ==
    {IntArg(n) : n \in RangePoints} \cup {StrArg("]")}
    \cup {TupleArg(<<IntArg(-1), IntArg(97)>>),
          TupleArg(<<IntArg(97), IntArg(1114112)>>),
          TupleArg(<<IntArg(97), IntArg(-1)>>),
          TupleArg(<<StrArg("a"), StrArg("]")>>)}
    \cup RangeBuilt

RangeItemLists == UNION {ListsOf(RangeArgs, n) : n \in 0..MaxRangeItems}

\* the SetRanges a.intersects(b) is called on
IntersectRanges ==
    {SetRange_init(ends[1], ends[2])[1] :
        ends \in {e \in (0..MaxPoint) \X (0..MaxPoint) : e[1] <= e[2]}}

\* SetRange(start, end)
NewSetRange(start, end) ==
    /\ out' = [NoOut EXCEPT
                 !.op = "SetRange",
                 !.raised = IF SetRange_init(start, end) = None
                            THEN "ValueError" ELSE "",
                 !.args = <<IntArg(start), IntArg(end)>>,
                 !.range = SetRange_init(start, end)]
    /\ UNCHANGED <<pool, cache, got, matched, compiled, inlining, racing, inserting>>

\* SetRange.create(item)
CallCreate(item) ==
    /\ out' = [NoOut EXCEPT
                 !.op = "SetRange.create",
                 !.raised = IF SetRange_create(item) = None
                            THEN "ValueError" ELSE "",
                 !.args = <<item>>,
                 !.range = SetRange_create(item)]
    /\ UNCHANGED <<pool, cache, got, matched, compiled, inlining, racing, inserting>>

\* a.intersects(b)
CallIntersects(a, b) ==
    /\ out' = [NoOut EXCEPT
                 !.op = "intersects",
                 !.args = <<SetRangeArg(a), SetRangeArg(b)>>,
                 !.result = SetRange_intersects(a, b)]
    /\ UNCHANGED <<pool, cache, got, matched, compiled, inlining, racing, inserting>>

NextRange ==
    /\ out.raised = ""
    /\ \/ /\ pool = <<>>
          /\ \/ \E start \in RangePoints, end \in RangePoints :
                   NewSetRange(start, end)
             \/ \E item \in RangeArgs : CallCreate(item)
             \/ \E a \in IntersectRanges, b \in IntersectRanges :
                   CallIntersects(a, b)
             \/ \E items \in RangeItemLists : NewSet(items)
       \/ /\ NodeCountAll(pool) < MaxRangeNodes
          /\ \/ /\ Len(pool) = 1
                /\ Len(pool[1].ranges) < MaxRanges
                /\ \/ \E item \in RangeArgs : NewSetOfSet(<<item>>, <<>>)
                   \/ \E item \in RangeArgs : NewSetOfSet(<<>>, <<item>>)
             \/ NewSequence(1)
             \/ NewCapture(1, None)
             \/ NewZeroOrMore
       \/ CallRender

SpecRange == Init /\ [][NextRange]_vars

----------------------------------------------------------------------------
(* Declarations that use a node more than once, as uri_regex.py uses       *)
(* HEXDIG and h16: a node built before, or an expression of one, is taken  *)
(* again and put under another parent. pool holds the nodes in scope;      *)
(* render and compile are called on any of them, in any order.             *)

MaxShareNodes == 5

ShareLiterals == {<<"a", "b">>}
\* no name, a name, and a name with a line break after it
ShareNames == {None, Some(<<"n">>), Some(<<"n", "\n">>)}

\* the nodes in scope: those of the pool and their expressions
InScope ==
    {pool[i] : i \in 1..Len(pool)}
    \cup UNION {{pool[i].expressions[j] : j \in 1..Len(pool[i].expressions)} :
                  i \in 1..Len(pool)}

\* a node in scope is taken again
Use(node) ==
    /\ Len(pool) < MaxArity
    /\ NodeCountAll(pool) + NodeCount(node) <= MaxShareNodes
    /\ pool' = Append(pool, node)
    /\ out' = [NoOut EXCEPT !.op = "use", !.node = node]
    /\ UNCHANGED <<cache, got, matched, compiled, inlining, racing, inserting>>

\* render calls that keep what render() returned in the text of the node
CallRenderOf_storing(i) ==
    /\ out' = RenderCalls(pool[i])
    /\ pool' = [pool EXCEPT ![i].text = render(pool[i])]
    /\ UNCHANGED <<cache, got, matched, compiled, inlining, racing, inserting>>

\* the render calls on the i-th node of the pool
CallRenderOf(i) ==
    /\ out' = RenderCalls(pool[i])
    /\ UNCHANGED <<pool, cache, got, matched, compiled, inlining, racing, inserting>>

\* what compile() returns on node, or raises
CompileCall(node, regex) ==
    [NoOut EXCEPT !.op = "compile", !.node = node,
                  !.raised = IF regex.ok THEN "" ELSE "re.error",
                  !.message = regex.err,
                  !.rendered = render(node)]

\* compile() on the i-th node of the pool
CallCompileOf(i) ==
    /\ out' = CompileCall(pool[i], compile(pool[i]))
    /\ UNCHANGED <<pool, cache, got, matched, compiled, inlining, racing, inserting>>

NextShare ==
    \/ /\ NodeCountAll(pool) < MaxShareNodes
       /\ \/ \E text \in ShareLiterals : NewLiteral(text)
          \/ NewStandAlone("Start")
          \/ \E k \in 1..MaxArity : NewSequence(k)
          \/ \E k \in 1..MaxArity : NewChoice(k)
          \/ \E name \in ShareNames : NewCapture(1, name)
          \/ NewZeroOrMore
    \/ \E node \in InScope : Use(node)
    \/ \E i \in 1..Len(pool) : CallRenderOf(i)
    \/ \E i \in 1..Len(pool) : CallCompileOf(i)

SpecShare == Init /\ [][NextShare]_vars

----------------------------------------------------------------------------
(* Declarations that use a node more than once, with render and compile    *)
(* called on any node in scope, in any order: the nodes are Literals,      *)
(* Sequences, Choices, Captures and Repeats, with a Capture name that      *)
(* compile() refuses when a shared Capture brings it twice.                *)

ShareRenderNames == {None, Some(<<"n">>)}

NextShareRender ==
    \/ /\ NodeCountAll(pool) < MaxShareNodes
       /\ \/ \E text \in ShareLiterals : NewLiteral(text)
          \/ \E k \in 1..MaxArity : NewSequence(k)
          \/ \E k \in 1..MaxArity : NewChoice(k)
          \/ \E name \in ShareRenderNames : NewCapture(1, name)
          \/ NewZeroOrMore
    \/ \E node \in InScope : Use(node)
    \/ \E i \in 1..Len(pool) : CallRenderOf(i)
    \/ \E i \in 1..Len(pool) : CallCompileOf(i)

SpecShareRender == Init /\ [][NextShareRender]_vars

----------------------------------------------------------------------------
(* Captures with every name over a letter, the underscore, a digit, the    *)
(* hyphen and the line break, and the name of the test, one inside         *)
(* another, rendered and compiled. After a call that raised nothing more   *)
(* is built.                                                               *)

MaxNameLen == 2
MaxCaptureNodes == 3

CaptureNameChars == {"a", "_", "1", "-", "\n"}

\* no name, the names of up to MaxNameLen characters, and a name like the
\* "foo-bar" of the test
CaptureNames ==
    {None}
    \cup {Some(name) :
            name \in UNION {ListsOf(CaptureNameChars, n) : n \in 0..MaxNameLen}}
    \cup {Some(<<"f", "-", "b", "a">>)}

NextCapture ==
    \/ /\ NodeCountAll(pool) < MaxCaptureNodes
       /\ out.raised = ""
       /\ \/ /\ pool = <<>>
             /\ NewLiteral(<<"a">>)
          \/ \E name \in CaptureNames : NewCapture(1, name)
    \/ CallRender
    \/ /\ Len(pool) = 1
       /\ CallCompileOf(1)

SpecCapture == Init /\ [][NextCapture]_vars

----------------------------------------------------------------------------
(* The rule dec_octet as the test module runs it: the rule is declared,    *)
(* rendered, and run against one test string, which ends the behaviour.    *)

MaxOctetLen == 3

\* the characters of the strings dec_octet is tested on, and the line break
OctetChars == {Digits[d] : d \in 1..10} \cup {"-", "f", "\n"}

OctetStrings == UNION {ListsOf(OctetChars, n) : n \in 0..MaxOctetLen}

\* the declaration of dec_octet
DeclareDecOctet ==
    /\ pool = <<>>
    /\ pool' = <<dec_octet>>
    /\ UNCHANGED <<out, cache, got, matched, compiled, inlining, racing, inserting>>

NextOctet ==
    \/ DeclareDecOctet
    \/ CallRender
    \/ /\ matched = NoMatch
       /\ \E string \in OctetStrings : RunTestCase(string)

SpecOctet == Init /\ [][NextOctet]_vars

----------------------------------------------------------------------------
(* An InlineContext under any sequence of _push_context, _pop_context and  *)
(* track() blocks, entered one inside another and left normally or by an   *)
(* exception of the body.                                                  *)

MaxTokens == 3

\* the urls of the tests, and no url
ContextUrls == {None, Some("x:/foo"), Some("x:/bar")}

\* no trigger element, and an include element
TriggerEls == {None, Some("include")}

NextContext ==
    \/ /\ tokens < MaxTokens
       /\ \E url \in ContextUrls, trigger_el \in TriggerEls :
             \/ PushContext(url, trigger_el)
             \/ TrackEnter(url, trigger_el)
    \/ \E url \in ContextUrls, token \in 0..tokens : PopContext(url, token)
    \/ \E raising \in BOOLEAN : TrackExit(raising)

SpecContext == Init /\ [][NextContext]_vars

(* The track() blocks of Inliner._inline: a block is entered for the url   *)
(* of a grammar, blocks for the grammars it refers to are entered and left *)
(* in its body, and a block is left normally or by an exception, which an  *)
(* enclosing body lets through or catches.                                 *)
NextTrack ==
    \/ /\ tokens < MaxTokens
       /\ \E url \in ContextUrls, trigger_el \in TriggerEls :
             TrackEnter(url, trigger_el)
    \/ \E raising \in BOOLEAN : TrackExit(raising)

SpecTrack == Init /\ [][NextTrack]_vars

----------------------------------------------------------------------------
(* One inline operation: grammars are dereferenced, and inlined in track() *)
(* blocks one inside another, until the first exception, which ends the    *)
(* operation.                                                              *)

MaxFetches == 3

\* the urls of the grammars
FetchUrls == {"x:/foo", "x:/bar"}

\* what a handler can do: the bytes of a grammar, of another one, of a
\* document that is no grammar, and of no document
Responses ==
    {NoHandler, HandlerRaises}
    \cup {HandlerReturns(content) :
            content \in {"<grammar/>", "<grammar><start/></grammar>",
                         "<html/>", "junk"}}

NextInline ==
    /\ called.raised = ""
    /\ \/ /\ Len(fetches) < MaxFetches
          /\ \E url \in FetchUrls, response \in Responses :
                DereferenceUrl(url, response)
       \/ /\ tokens < MaxTokens
          /\ \E url \in FetchUrls, trigger_el \in TriggerEls :
                TrackEnter(Some(url), trigger_el)
       \/ TrackExit(FALSE)

SpecInline == Init /\ [][NextInline]_vars

----------------------------------------------------------------------------
(* Threads that look rules up at the same time, MaxCalls times in all, in  *)
(* any interleaving of the steps of their calls.                           *)

\* the names the threads ask for: two rules, and a name that is no rule
RaceNames == {"port", "DIGIT", "uri"}

NextRace ==
    \/ \E t \in Threads, rule_name \in RaceNames : ThreadCall(t, rule_name)
    \/ \E t \in Threads : ThreadBody(t)
    \/ \E t \in Threads : ThreadStore(t)

SpecRace == Init /\ [][NextRace]_vars

----------------------------------------------------------------------------
(* A DeferredXmlInsertion over a small tree, with insertions and           *)
(* replacements of elements and of other DeferredXmlInsertions registered  *)
(* in any order, and perform_insertions called at any time and again.      *)

MaxInsertCalls == 3

\* <a><b/>t<c><d/></c></a> and <a><b/></a>
RootTrees ==
    {Element("a", <<>>,
             <<Element("b", <<>>, <<>>, <<"t">>),
               Element("c", <<>>, <<Element("d", <<>>, <<>>, <<>>)>>,
                       <<>>)>>,
             <<>>),
     Element("a", <<>>, <<Element("b", <<>>, <<>>, <<>>)>>, <<>>)}

\* <x><y/></x>, <z/> and <x/>
TreeX == Element("x", <<>>, <<Element("y", <<>>, <<>>, <<>>)>>, <<>>)
TreeZ == Element("z", <<>>, <<>>, <<>>)
TreeXZ == Element("x", <<>>, <<TreeZ>>, <<>>)

\* the markers of a DeferredXmlInsertion made elsewhere come after those
\* of this one
MadeElsewhere == Len(Uuids) - 1

\* the objects to insert, each with the tree it stands for: an element; a
\* DeferredXmlInsertion with an element replaced; one with its root
\* replaced; one with nothing registered
NewEls ==
    {[el |-> AsElement(TreeX), tree |-> TreeX],
     [el |-> register_replace(DeferredXmlInsertion_init(TreeX),
                              MadeElsewhere, <<1>>, AsElement(TreeZ)).self,
      tree |-> TreeXZ],
     [el |-> register_replace(DeferredXmlInsertion_init(TreeX),
                              MadeElsewhere, <<>>, AsElement(TreeZ)).self,
      tree |-> TreeZ],
     [el |-> DeferredXmlInsertion_init(TreeZ), tree |-> TreeZ]}

\* the tree new_el stands for
TreeOf(new_el) == (CHOOSE n \in NewEls : n.el = new_el).tree

InsertPaths == {<<>>, <<1>>, <<2>>, <<2, 1>>}

\* the objects register_insert is given: an element, and a
\* DeferredXmlInsertion as _inline_include gives one
InsertedEls == {n \in NewEls : n.tree # TreeZ}

NextInsert ==
    \/ \E root_el \in RootTrees : NewDxi(root_el)
    \/ /\ Len(inserted) < MaxInsertCalls
       /\ \/ \E parent \in InsertPaths, index \in 0..1, n \in InsertedEls :
                 RegisterInsert(parent, index, n.el)
          \/ \E old_el \in InsertPaths, n \in NewEls :
                 RegisterReplace(old_el, n.el)
          \/ PerformInsertions

SpecInsert == Init /\ [][NextInsert]_vars

----------------------------------------------------------------------------
(* What the claims say about a rendered pattern.                            *)

\* the pattern is exactly one atom: one alternative of one item, which
\* carries no repetition operator
OneAtom(pattern) ==
    LET p == parse(pattern)
    IN  /\ p.ok
        /\ Len(p.val) = 1
        /\ Len(p.val[1]) = 1
        /\ p.val[1][1].q = None

\* the pattern has no alternation bar outside a group, a class or an escape
NoTopLevelBar(pattern) ==
    LET p == parse(pattern)
    IN  p.ok /\ Len(p.val) = 1

\* the pattern is one non-capturing group without a repetition operator
OneAnonymousGroup(pattern) ==
    /\ OneAtom(pattern)
    /\ LET item == parse(pattern).val[1][1]
       IN  item.t = "group" /\ ~item.cap

RECURSIVE NormalAlternatives(_)
RECURSIVE NormalItems(_)
RECURSIVE NormalItem(_)

(* A parsed pattern without the non-capturing groups that change nothing:  *)
(* a group without operator around one alternative is its items, a group   *)
(* with an operator around one atom is that atom with the operator, and an *)
(* alternative that is only a group of alternatives is those alternatives. *)
(* What remains tells which sub-expression every bar and every operator    *)
(* applies to.                                                             *)
NormalItem(item) ==
    IF item.t # "group" THEN <<item>>
    ELSE
      LET body == NormalAlternatives(item.body)
      IN  IF item.cap THEN <<[item EXCEPT !.body = body]>>
          ELSE IF item.q = None
          THEN IF Len(body) = 1 THEN body[1]
               ELSE <<[item EXCEPT !.body = body]>>
          ELSE IF Len(body) = 1 /\ Len(body[1]) = 1 /\ body[1][1].q = None
          THEN <<[body[1][1] EXCEPT !.q = item.q]>>
          ELSE <<[item EXCEPT !.body = body]>>

NormalItems(items) == Concat([i \in 1..Len(items) |-> NormalItem(items[i])])

NormalAlternatives(alts) ==
    Concat([a \in 1..Len(alts) |->
              LET n == NormalItems(alts[a])
              IN  IF Len(n) = 1 /\ n[1].t = "group" /\ ~n[1].cap
                     /\ n[1].q = None
                  THEN n[1].body
                  ELSE <<n>>])

\* both patterns parse, and to the same structure
SameStructure(pattern1, pattern2) ==
    LET p1 == parse(pattern1)
        p2 == parse(pattern2)
    IN  /\ p1.ok
        /\ p2.ok
        /\ NormalAlternatives(p1.val) = NormalAlternatives(p2.val)

RECURSIVE NaiveRender(_)
\* the rendering that puts every node in a non-capturing group of its own
NaiveRender(node) ==
    LET children == [i \in 1..Len(node.expressions) |->
                        NaiveRender(node.expressions[i])]
    IN  AnonymousGroup(
          CASE node.kind = "Literal" -> Literal_render(node)
            [] node.kind = "Set" -> Set_render(node)
            [] node.kind \in StandAloneKinds -> representation(node)
            [] node.kind = "Sequence" -> Join(<<>>, children)
            [] node.kind = "Choice" -> Join(<<"|">>, children)
            [] node.kind = "Capture" ->
                  (IF node.name = None THEN <<"(">>
                   ELSE <<"(", "?", "P", "<">> \o node.name[1] \o <<">">>)
                  \o Join(<<>>, children) \o <<")">>
            [] node.kind = "Repeat" -> children[1] \o Repeat_operator(node))

RECURSIVE GroupsOfAlternatives(_)
RECURSIVE GroupsOfItems(_)
\* the capturing groups of a parsed pattern, by opening parenthesis: the
\* name of each (None for an unnamed one)
GroupsOfItems(items) ==
    Concat([i \in 1..Len(items) |->
              IF items[i].t # "group" THEN <<>>
              ELSE (IF items[i].cap THEN <<items[i].name>> ELSE <<>>)
                   \o GroupsOfAlternatives(items[i].body)])
GroupsOfAlternatives(alts) ==
    Concat([a \in 1..Len(alts) |-> GroupsOfItems(alts[a])])

RECURSIVE CapturesOf(_)
\* the Capture occurrences of a node tree in a left-to-right traversal: the
\* name of each
CapturesOf(node) ==
    (IF node.kind = "Capture" THEN <<node.name>> ELSE <<>>)
    \o Concat([i \in 1..Len(node.expressions) |-> CapturesOf(node.expressions[i])])

\* the items of the single alternative of each part, joined
ItemsOfParts(parts) ==
    Concat([i \in 1..Len(parts) |-> parse(parts[i]).val[1]])

\* what the children of a node contribute, each through the non-expansive
\* rule
ChildRenders(node) ==
    [i \in 1..Len(node.expressions) |->
        render_non_expansive(node.expressions[i])]

----------------------------------------------------------------------------
(* Claims about the tree specification Spec.                               *)

Rendered == out.op = "render"

C2_ChildrenKeepTheirAlternation ==
    Rendered =>
        LET node == out.node
            parts == ChildRenders(node)
            whole == parse(out.rendered)
        IN  /\ ~out.expansive => NoTopLevelBar(out.rendered)
            /\ node.kind \in {"Sequence", "Choice", "Capture"} =>
                 /\ \A i \in 1..Len(parts) : NoTopLevelBar(parts[i])
                 /\ whole.ok
            /\ node.kind = "Sequence" =>
                 /\ whole.val = <<ItemsOfParts(parts)>>
                 /\ \A i \in 1..Len(parts) :
                      (node.expressions[i].kind = "Choice"
                       /\ Len(node.expressions[i].expressions) >= 2)
                          => OneAnonymousGroup(parts[i])
            /\ node.kind = "Choice" =>
                 whole.val = [i \in 1..Len(parts) |-> parse(parts[i]).val[1]]
            /\ node.kind = "Capture" =>
                 /\ Len(whole.val) = 1
                 /\ Len(whole.val[1]) = 1
                 /\ whole.val[1][1].body = <<ItemsOfParts(parts)>>

\* a Sequence of a two-alternative Choice and a sibling was rendered
C2_Witness ==
    /\ Rendered
    /\ out.node.kind = "Sequence"
    /\ Len(out.node.expressions) = 2
    /\ out.node.expressions[1].kind = "Choice"
    /\ Len(out.node.expressions[1].expressions) = 2

\* the bounds of a Repeat as the host reads its operator: an absent min is 0
RepeatBounds(node) ==
    Quantifier(IF node.min = None THEN 0 ELSE node.min[1], node.max, "greedy")

C3_WitnessNested ==
    /\ Rendered
    /\ out.node.kind = "Repeat"
    /\ out.node.expressions[1].kind = "Repeat"

BoundText(bound) == IF bound = None THEN <<>> ELSE FormatInt(bound[1])

\* the rules of the operator, in their order: when each applies, and what
\* it gives
OperatorRules(min, max) ==
    << <<min = None /\ max = None, <<"*">> >>,
       <<min = Some(1) /\ max = None, <<"+">> >>,
       <<min = Some(0) /\ max = Some(1), <<"?">> >>,
       <<min = max, <<"{">> \o BoundText(min) \o <<"}">> >>,
       <<min = None, <<"{", ",">> \o BoundText(max) \o <<"}">> >>,
       <<max = None, <<"{">> \o BoundText(min) \o <<",", "}">> >>,
       <<TRUE, <<"{">> \o BoundText(min) \o <<",">> \o BoundText(max)
                 \o <<"}">> >> >>

\* what the first rule that applies gives
FirstMatchingRule(rules) ==
    rules[CHOOSE i \in 1..Len(rules) :
            rules[i][1] /\ \A j \in 1..(i - 1) : ~rules[j][1]][2]

\* the (min, max) of the subclasses of Repeat
SubclassBounds ==
    [ZeroOrMore |-> <<None, None, <<"*">> >>,
     OneOrMore |-> <<Some(1), None, <<"+">> >>,
     Optional |-> <<Some(0), Some(1), <<"?">> >>]

\* C5: the operator of a Repeat is what the first matching rule of the list
\* gives for its (min, max): both absent *, (1, absent) +, (0, 1) ?, min =
\* max {N}, min absent {,M}, max absent {N,}, otherwise {N,M}; a ZeroOrMore,
\* OneOrMore or Optional is a Repeat with (None, None), (1, None) or (0, 1)
\* and renders its child followed by *, + or ?.
C5_OperatorByFirstMatchingRule ==
    (Rendered /\ out.node.kind = "Repeat") =>
        LET node == out.node
        IN  /\ out.operator
                 = FirstMatchingRule(OperatorRules(node.min, node.max))
            /\ node.subclass # "" =>
                 /\ node.min = SubclassBounds[node.subclass][1]
                 /\ node.max = SubclassBounds[node.subclass][2]
                 /\ out.rendered =
                      render_singular(node.expressions[1])
                      \o SubclassBounds[node.subclass][3]

\* a Repeat with min = max = 1, which the + and ? rules pass over and the
\* {N} rule decides, was rendered
C5_Witness ==
    /\ Rendered
    /\ out.node.kind = "Repeat"
    /\ out.node.min = Some(1)
    /\ out.node.max = Some(1)
    /\ out.operator = <<"{", "1", "}">>

\* the characters the claim calls metacharacters
Metacharacters ==
    {"\\", ".", "^", "$", "*", "+", "?", "{", "}", "[", "]", "|", "(", ")"}

\* text with a backslash before each metacharacter
Escaped(text) ==
    Join(<<>>, [i \in 1..Len(text) |->
                    IF text[i] \in Metacharacters THEN <<"\\", text[i]>>
                    ELSE <<text[i]>>])

RECURSIVE Unescaped(_)
\* pattern without its escapes: a backslash goes, the character after it
\* stays
Unescaped(pattern) ==
    IF Len(pattern) = 0 THEN <<>>
    ELSE IF pattern[1] = "\\" /\ Len(pattern) >= 2
    THEN <<pattern[2]>> \o Unescaped(SubSeq(pattern, 3, Len(pattern)))
    ELSE <<pattern[1]>> \o Unescaped(Tail(pattern))

\* C6: the render of a Literal is its text with a backslash before each of
\* the 14 metacharacters and every other character as it is; the render
\* without its escapes is the text; and the Literal between Start() and
\* End(), compiled, matches a test string, in the test module's sense of a
\* match that ends where the string ends, exactly when the string is the
\* text.
C6_LiteralEscapingRoundTrip ==
    /\ (Rendered /\ out.node.kind = "Literal") =>
          /\ out.rendered = Escaped(out.node.text)
          /\ Unescaped(out.rendered) = out.node.text
    /\ matched.node.kind = "Literal" =>
          /\ matched.raised = ""
          /\ matched.result <=> (matched.text = matched.node.text)

\* a Literal of two metacharacters was rendered, and matched its own text
C6_Witness ==
    /\ Rendered
    /\ out.node.text = <<"\\", ".">>
    /\ out.rendered = <<"\\", "\\", "\\", ".">>
    /\ matched.node = out.node
    /\ matched.text = out.node.text
    /\ matched.result

\* a Literal was run on its text with a line break after it, on its render
\* and on another character where it has a dot, and matched none
C6_WitnessOthers ==
    /\ matched.node.text = <<".">>
    /\ matched.text \in {<<".", "\n">>, <<"\\", ".">>, <<"a">>}
    /\ ~matched.result

\* the code points an argument of Set stands for: its own for a code point
\* or a character, those from start to end for a pair or a SetRange, those
\* of its ranges for a Set
ArgCodePoints(item) ==
    CASE item.t = "int" -> {item.n}
      [] item.t = "str" -> {CodePoint[item.c]}
      [] item.t = "tuple" ->
           {n \in 0..127 :
              /\ n >= (IF item.pair[1].t = "int" THEN item.pair[1].n
                       ELSE CodePoint[item.pair[1].c])
              /\ n <= (IF item.pair[2].t = "int" THEN item.pair[2].n
                       ELSE CodePoint[item.pair[2].c])}
      [] item.t = "SetRange" -> item.range.start..item.range.end
      [] item.t = "Set" ->
           UNION {item.set.ranges[i].start..item.set.ranges[i].end :
                    i \in 1..Len(item.set.ranges)}

\* the characters whose code point lies in a range of ranges
CharsOfRanges(ranges) ==
    {c \in Chars : \E i \in 1..Len(ranges) :
        ranges[i].start <= CodePoint[c] /\ CodePoint[c] <= ranges[i].end}

\* C7: a Set, between Start() and End() and compiled, matches a string
\* exactly when the string is one character whose code point lies in a
\* range of the arguments of the Set, those of a Set among them included;
\* and the render of a Set reads in the host dialect as one character class,
\* not negated, whose members are the characters in the ranges of the Set.
C7_SetMatchesItsRanges ==
    /\ (out.op = "Set" /\ out.raised = "" /\ matched.node = out.node) =>
          /\ matched.raised = ""
          /\ matched.result <=>
                /\ Len(matched.text) = 1
                /\ \E i \in 1..Len(out.args) :
                      CodePoint[matched.text[1]] \in ArgCodePoints(out.args[i])
    /\ (Rendered /\ out.node.kind = "Set") =>
          LET p == parse(out.rendered)
          IN  /\ p.ok
              /\ Len(p.val) = 1
              /\ Len(p.val[1]) = 1
              /\ p.val[1][1].t = "class"
              /\ ~p.val[1][1].negate
              /\ p.val[1][1].q = None
              /\ p.val[1][1].members = CharsOfRanges(out.node.ranges)

\* Set("^", Set("]", "\\")) was built and matched "]"
C7_Witness ==
    /\ out.op = "Set"
    /\ Len(out.args) = 2
    /\ out.args[1] = StrArg("^")
    /\ out.args[2].t = "Set"
    /\ out.node.ranges = <<SetRange(94, 94), SetRange(93, 93), SetRange(92, 92)>>
    /\ matched.node = out.node
    /\ matched.text = <<"]">>
    /\ matched.result

\* Set("^"), Set("]") and Set("\\") were rendered
C7_WitnessSingle ==
    /\ Rendered
    /\ out.node.kind = "Set"
    /\ out.node.ranges \in {<<SetRange(94, 94)>>, <<SetRange(93, 93)>>,
                             <<SetRange(92, 92)>>}
    /\ out.rendered \in {<<"[", "\\", "^", "]">>, <<"[", "\\", "]", "]">>,
                          <<"[", "\\", "\\", "]">>}

----------------------------------------------------------------------------
(* What it is for a text to be derived by a rule: the positions at which   *)
(* a part of text that starts at i and is derived by the rule's tree can   *)
(* end. This is the grammar's meaning of the tree, not the host's reading  *)
(* of its pattern.                                                         *)

RECURSIVE DerivedEnds(_, _, _)
RECURSIVE DerivedSequence(_, _, _, _)
RECURSIVE DerivedRepeat(_, _, _, _, _)

DerivedSequence(expressions, k, text, i) ==
    IF k > Len(expressions) THEN {i}
    ELSE UNION {DerivedSequence(expressions, k + 1, text, p) :
                    p \in DerivedEnds(expressions[k], text, i)}

DerivedRepeat(node, text, cur, n, acc) ==
    LET least == IF node.min = None THEN 0 ELSE node.min[1]
        within == IF n >= least THEN acc \cup cur ELSE acc
        next == UNION {DerivedEnds(node.expressions[1], text, p) : p \in cur}
    IN  IF cur = {} \/ (node.max # None /\ n >= node.max[1])
           \/ (n >= least /\ next \subseteq within)
        THEN within
        ELSE DerivedRepeat(node, text, next, n + 1, within)

DerivedEnds(node, text, i) ==
    CASE node.kind = "Literal" ->
           IF SubSeq(text, i, i + Len(node.text) - 1) = node.text
           THEN {i + Len(node.text)} ELSE {}
      [] node.kind = "Set" ->
           IF i <= Len(text) /\ text[i] \in CharsOfRanges(node.ranges)
           THEN {i + 1} ELSE {}
      [] node.kind \in {"Sequence", "Capture"} ->
           DerivedSequence(node.expressions, 1, text, i)
      [] node.kind = "Choice" ->
           UNION {DerivedEnds(node.expressions[k], text, i) :
                    k \in 1..Len(node.expressions)}
      [] node.kind = "Repeat" -> DerivedRepeat(node, text, {i}, 0, {})

\* the whole of text is derived by the rule
Derives(rule, text) == (Len(text) + 1) \in DerivedEnds(rule, text, 1)

\* a text was matched against a rule that get_regex knows
MatchedARule ==
    /\ got.op = "get_regex"
    /\ got.raised = ""
    /\ matched # NoMatch

\* C9, as the claim states it: the matcher of a rule reports a match on a
\* text only when the whole text is derived by the rule.
C9_MatchOnlyOfWholeText ==
    (MatchedARule /\ matched.result) =>
        Derives(_rfc_names[got.name], matched.text)

\* C9, as the code has it: the matcher of a rule reports a match on a text
\* exactly when the whole text is derived by the rule, or the text ends
\* with a line break and the text before that line break is derived by
\* the rule.
C9_MatchAllowsOneLineBreakAfter ==
    MatchedARule =>
        (matched.result <=>
            \/ Derives(_rfc_names[got.name], matched.text)
            \/ /\ Len(matched.text) >= 1
               /\ matched.text[Len(matched.text)] = "\n"
               /\ Derives(_rfc_names[got.name],
                          SubSeq(matched.text, 1, Len(matched.text) - 1)))

\* port matched "1" followed by a line break, which port does not derive
C9_Witness ==
    /\ MatchedARule
    /\ got.name = "port"
    /\ matched.text = <<"1", "\n">>
    /\ matched.result
    /\ ~Derives(port, matched.text)

----------------------------------------------------------------------------
(* Claims about SetRanges and Sets over arbitrary code points.            *)

RECURSIVE RangesOfTree(_)
\* the SetRanges the Sets of a node tree hold
RangesOfTree(node) ==
    {node.ranges[i] : i \in 1..Len(node.ranges)}
    \cup UNION {RangesOfTree(node.expressions[i]) :
                  i \in 1..Len(node.expressions)}

\* a code point that is the code point of a character
IsCodePoint(n) == n >= 0 /\ n <= 1114111

\* C12, as the claim states it: no render(), render_singular() or
\* render_non_expansive() of a node tree whose constructors all returned
\* raises.
C12_RenderNeverRaises ==
    out.op = "render" => out.raised = ""

\* C12, as the code has it: rendering a node tree whose constructors all
\* returned raises ValueError exactly when a Set of the tree holds a
\* SetRange with an end that is not the code point of a character, and
\* raises nothing else.
C12_RenderRaisesOnCodePointOutOfRange ==
    out.op = "render" =>
        /\ out.raised \in {"", "ValueError"}
        /\ out.raised = "ValueError" <=>
             \E r \in RangesOfTree(out.node) :
                ~IsCodePoint(r.start) \/ ~IsCodePoint(r.end)

\* Sequence(Set(-1)) was built without an error and its render raised
C12_Witness ==
    /\ out.op = "render"
    /\ out.raised = "ValueError"
    /\ out.node = MkBaseSequence("Sequence", <<MkSet(<<SetRange(-1, -1)>>)>>)

----------------------------------------------------------------------------
(* Claims about declarations that share nodes.                            *)

RECURSIVE RendersAsToken(_)
\* the node renders as a Start or End token alone: it is one, or a Sequence
\* or Choice of one expression that does
RendersAsToken(node) ==
    \/ node.kind \in {"Start", "End"}
    \/ /\ node.kind \in {"Sequence", "Choice"}
       /\ Len(node.expressions) = 1
       /\ RendersAsToken(node.expressions[1])

RECURSIVE HasRepeatOfToken(_)
\* a Repeat of the tree has a child that renders as a Start or End token
HasRepeatOfToken(node) ==
    \/ node.kind = "Repeat" /\ RendersAsToken(node.expressions[1])
    \/ \E i \in 1..Len(node.expressions) : HasRepeatOfToken(node.expressions[i])

\* the names of the named Captures of the tree, by occurrence
NamesOf(node) ==
    LET captures == CapturesOf(node)
    IN  Concat([i \in 1..Len(captures) |->
                  IF captures[i] = None THEN <<>> ELSE <<captures[i][1]>>])

\* a name occurs twice among the Captures of the tree
HasNameTwice(node) ==
    \E i, j \in 1..Len(NamesOf(node)) :
        i < j /\ NamesOf(node)[i] = NamesOf(node)[j]

\* a Capture of the tree has a name that ends with a line break
HasNameWithLineBreak(node) ==
    \E i \in 1..Len(NamesOf(node)) :
        NamesOf(node)[i][Len(NamesOf(node)[i])] = "\n"

\* C14, as the claim states it: compile() succeeds on every node tree whose
\* constructors all returned.
C14_RenderCompiles ==
    out.op = "compile" => out.raised = ""

\* C14, as the code has it: compile() on a node tree whose constructors all
\* returned raises re.error exactly when the tree holds a Repeat whose
\* child renders as a Start or End token alone, a Capture name twice, or a
\* Capture name that ends with a line break; otherwise it succeeds.
C14_CompileFailsOnTokenRepeatOrName ==
    out.op = "compile" =>
        /\ out.raised \in {"", "re.error"}
        /\ out.raised = "re.error" <=>
             \/ HasRepeatOfToken(out.node)
             \/ HasNameTwice(out.node)
             \/ HasNameWithLineBreak(out.node)
        /\ out.rendered = render(out.node)

\* a named Capture was used twice in a Sequence, and compile() raised
C14_Witness ==
    /\ out.op = "compile"
    /\ out.raised = "re.error"
    /\ out.message = "redefinition of group name"
    /\ out.node.kind = "Sequence"
    /\ Len(out.node.expressions) = 2
    /\ out.node.expressions[1] = out.node.expressions[2]
    /\ out.node.expressions[1].kind = "Capture"

\* ZeroOrMore(Sequence(Start())) was compiled, and compile() raised
C14_WitnessToken ==
    /\ out.op = "compile"
    /\ out.raised = "re.error"
    /\ out.message = "nothing to repeat"
    /\ out.node.kind = "Repeat"
    /\ out.node.expressions[1] = MkBaseSequence("Sequence", <<MkStandAlone("Start")>>)

\* a Capture whose name ends with a line break was compiled, and compile()
\* raised
C14_WitnessName ==
    /\ out.op = "compile"
    /\ out.raised = "re.error"
    /\ out.message = "bad character in group name"
    /\ out.node.kind = "Capture"
    /\ out.node.name = Some(<<"n", "\n">>)

----------------------------------------------------------------------------
(* Claims about the groups of the rendered string.                        *)

\* no non-capturing group of the pattern can be removed: taking away the
\* groups that change neither what a bar nor what an operator applies to
\* takes nothing away
NoRemovableGroup(pattern) ==
    /\ parse(pattern).ok
    /\ NormalAlternatives(parse(pattern).val) = parse(pattern).val

RECURSIVE HasChoice(_)
\* a Choice is in the tree
HasChoice(node) ==
    \/ node.kind = "Choice"
    \/ \E i \in 1..Len(node.expressions) : HasChoice(node.expressions[i])

\* C15, as the claim states it: render() emits a non-capturing group only
\* where removing it would change what an alternation bar or a postfix
\* operator applies to, in every nesting.
C15_MinimallyParenthesized ==
    Rendered => NoRemovableGroup(out.rendered)

\* C15, as the code has it: render() of a tree without a Choice emits a
\* non-capturing group only where removing it would change what a postfix
\* operator applies to; a group that can be removed is emitted only in a
\* tree with a Choice.
C15_MinimallyParenthesizedWithoutChoice ==
    (Rendered /\ ~HasChoice(out.node)) => NoRemovableGroup(out.rendered)

\* a Repeat of a Sequence of a Literal of two characters was rendered with
\* the group it needs
C15_Witness ==
    /\ Rendered
    /\ out.node.kind = "Repeat"
    /\ out.node.expressions[1].kind = "Sequence"
    /\ ~HasChoice(out.node)
    /\ out.rendered = <<"(", "?", ":", "a", "b", ")", "{", "2", ",", "4", "}">>

\* a Choice that is the first child of a Choice was rendered in a group
C15_WitnessChoiceInChoice ==
    /\ Rendered
    /\ out.node.kind = "Choice"
    /\ Len(out.node.expressions) = 2
    /\ out.node.expressions[1].kind = "Choice"
    /\ Len(out.node.expressions[1].expressions) = 2
    /\ ~NoRemovableGroup(out.rendered)

\* a Choice that is the only child of a Capture was rendered in a group
C15_WitnessChoiceInCapture ==
    /\ Rendered
    /\ out.node.kind = "Capture"
    /\ Len(out.node.expressions) = 1
    /\ out.node.expressions[1].kind = "Choice"
    /\ Len(out.node.expressions[1].expressions) = 2
    /\ ~NoRemovableGroup(out.rendered)

----------------------------------------------------------------------------
(* Claims about the constructors.                                          *)

RECURSIVE SetsOfTree(_)
\* the Sets of a node tree
SetsOfTree(node) ==
    (IF node.kind = "Set" THEN {node} ELSE {})
    \cup UNION {SetsOfTree(node.expressions[i]) : i \in 1..Len(node.expressions)}

\* the number of ranges the arguments of a Set bring: one for each that is
\* no Set, and those of each that is
RangesBrought(args) ==
    Len(Concat([i \in 1..Len(args) |->
                  IF args[i].t = "Set" THEN args[i].set.ranges
                  ELSE <<args[i]>>]))

\* C16: Set() with no argument raises ValueError and constructs nothing;
\* every Set constructed, of members and of Sets in any combination, holds
\* at least one range: as many as its arguments bring.
C16_NoEmptySet ==
    /\ (out.op = "Set" /\ out.args = <<>>) =>
          (out.raised = "ValueError" /\ out.node = BlankNode)
    /\ (out.op = "Set" /\ out.raised = "") =>
          /\ Len(out.node.ranges) >= 1
          /\ Len(out.node.ranges) = RangesBrought(out.args)
    /\ \A i \in 1..Len(pool) :
          \A set \in SetsOfTree(pool[i]) : Len(set.ranges) >= 1

\* Set() was called and raised
C16_Witness ==
    /\ out.op = "Set"
    /\ out.args = <<>>
    /\ out.raised = "ValueError"
    /\ pool = <<>>

\* a Set was built of nothing but a Set
C16_WitnessOfSet ==
    /\ out.op = "Set"
    /\ out.raised = ""
    /\ Len(out.args) = 1
    /\ out.args[1].t = "Set"
    /\ pool = <<out.node>>

\* the ends a pair argument gives SetRange, as code points
PairEnds(item) ==
    <<SetRange_get_codepoint(item.pair[1]), SetRange_get_codepoint(item.pair[2])>>

\* the argument is a pair whose end is below its start
IsReversedPair(item) ==
    /\ item.t = "tuple"
    /\ Len(item.pair) = 2
    /\ PairEnds(item)[2] < PairEnds(item)[1]

\* C17: SetRange(start, end) raises ValueError and constructs no range
\* exactly when end < start; SetRange.create and Set given a pair with
\* end < start raise ValueError and construct nothing; every SetRange a
\* call returned, and every SetRange held by a Set of a constructed tree,
\* has start <= end.
C17_NoReversedRange ==
    /\ out.op = "SetRange" =>
          /\ out.raised = "ValueError" <=> out.args[2].n < out.args[1].n
          /\ out.raised = "ValueError" => out.range = None
          /\ out.raised = "" =>
               out.range = Some(SetRange(out.args[1].n, out.args[2].n))
    /\ (out.op = "SetRange.create" /\ IsReversedPair(out.args[1])) =>
          (out.raised = "ValueError" /\ out.range = None)
    /\ (out.op = "Set" /\ \E i \in 1..Len(out.args) : IsReversedPair(out.args[i])) =>
          (out.raised = "ValueError" /\ out.node = BlankNode)
    /\ out.range # None => out.range[1].start <= out.range[1].end
    /\ \A i \in 1..Len(pool) :
          \A r \in RangesOfTree(pool[i]) : r.start <= r.end

\* Set was given a pair with end < start next to another member, and raised
C17_Witness ==
    /\ out.op = "Set"
    /\ Len(out.args) = 2
    /\ IsReversedPair(out.args[2])
    /\ ~IsReversedPair(out.args[1])
    /\ out.raised = "ValueError"

\* SetRange(97, -1) was called and raised
C17_WitnessSetRange ==
    /\ out.op = "SetRange"
    /\ out.args = <<IntArg(97), IntArg(-1)>>
    /\ out.raised = "ValueError"
    /\ out.range = None

RECURSIVE RepeatsOfTree(_)
\* the Repeats of a node tree
RepeatsOfTree(node) ==
    (IF node.kind = "Repeat" THEN {node} ELSE {})
    \cup UNION {RepeatsOfTree(node.expressions[i]) :
                  i \in 1..Len(node.expressions)}

\* an argument of Repeat is given, is given and negative
IsGiven(arg) == arg.t = "int"
IsNegative(arg) == arg.t = "int" /\ arg.n < 0

\* the bound an argument gives: None, or the int
BoundOf(arg) == IF arg.t = "int" THEN Some(arg.n) ELSE None

\* C18: Repeat(expr, min, max, count) fails to construct, and constructs
\* nothing, whenever min or max is negative, or both are given with
\* min > max, or count is given together with min or max, and also when
\* count is negative, and in no other case; count=N gives min = max = N,
\* and without count min and max are as given. Every Repeat of a
\* constructed tree has bounds that are not negative, and min <= max when
\* it has both.
C18_RepeatBoundsAreConsistent ==
    /\ out.op = "Repeat" =>
          LET min == out.args[1]
              max == out.args[2]
              count == out.args[3]
          IN  /\ out.raised \in {"", "AssertionError"}
              /\ out.raised = "AssertionError" <=>
                   \/ IsNegative(min)
                   \/ IsNegative(max)
                   \/ IsNegative(count)
                   \/ IsGiven(min) /\ IsGiven(max) /\ min.n > max.n
                   \/ IsGiven(count) /\ (IsGiven(min) \/ IsGiven(max))
              /\ out.raised = "AssertionError" => out.node = BlankNode
              /\ (out.raised = "" /\ IsGiven(count)) =>
                   (out.node.min = Some(count.n) /\ out.node.max = Some(count.n))
              /\ (out.raised = "" /\ ~IsGiven(count)) =>
                   (out.node.min = BoundOf(min) /\ out.node.max = BoundOf(max))
    /\ \A i \in 1..Len(pool) :
          \A repeat \in RepeatsOfTree(pool[i]) :
             /\ repeat.min # None => repeat.min[1] >= 0
             /\ repeat.max # None => repeat.max[1] >= 0
             /\ (repeat.min # None /\ repeat.max # None) =>
                   repeat.min[1] <= repeat.max[1]

\* Repeat(expr, min=2, max=1) was called on a Repeat and failed
C18_Witness ==
    /\ out.op = "Repeat"
    /\ out.args = <<IntArg(2), IntArg(1), NoneArg>>
    /\ out.raised = "AssertionError"
    /\ Len(pool) = 1
    /\ pool[1].kind = "Repeat"

\* Repeat(expr, count=3) was constructed
C18_WitnessCount ==
    /\ out.op = "Repeat"
    /\ out.args = <<NoneArg, NoneArg, IntArg(3)>>
    /\ out.raised = ""
    /\ out.node.min = Some(3)
    /\ out.node.max = Some(3)

\* the letters among Chars
Letters == {"A", "F", "P", "Z", "a", "b", "f", "n", "s", "z"}

\* the identifier grammar: a letter or an underscore, then letters, digits
\* and underscores, and nothing else
IsIdentifier(name) ==
    /\ Len(name) >= 1
    /\ name[1] \in Letters \cup {"_"}
    /\ \A i \in 2..Len(name) : name[i] \in Letters \cup {"_"} \/ IsDigit(name[i])

\* C19, as the claim states it: Capture(..., name=n) constructs exactly
\* when n is absent or matches the identifier grammar, and raises
\* ValueError and constructs nothing for every other n.
C19_NameIsIdentifier ==
    out.op = "Capture" =>
        /\ out.raised \in {"", "ValueError"}
        /\ out.raised = "" <=>
             (out.args[1] = NoneArg \/ IsIdentifier(out.args[1].text))
        /\ out.raised = "ValueError" => out.node = BlankNode

\* C19, as the code has it: Capture(..., name=n) constructs exactly when n
\* is absent, matches the identifier grammar, or is such a name followed by
\* one line break, and raises ValueError and constructs nothing for every
\* other n; the Capture constructed holds n as its name.
C19_NameIsIdentifierOrOneWithLineBreak ==
    out.op = "Capture" =>
        /\ out.raised \in {"", "ValueError"}
        /\ out.raised = "" <=>
             \/ out.args[1] = NoneArg
             \/ IsIdentifier(out.args[1].text)
             \/ /\ Len(out.args[1].text) >= 2
                /\ out.args[1].text[Len(out.args[1].text)] = "\n"
                /\ IsIdentifier(SubSeq(out.args[1].text, 1,
                                       Len(out.args[1].text) - 1))
        /\ out.raised = "ValueError" => out.node = BlankNode
        /\ out.raised = "" => NameArg(out.node.name) = out.args[1]

\* Capture(Literal("a"), name="a\n") was constructed
C19_Witness ==
    /\ out.op = "Capture"
    /\ out.args = <<NameArg(Some(<<"a", "\n">>))>>
    /\ out.raised = ""
    /\ out.node.name = Some(<<"a", "\n">>)

\* Capture(..., name="f-ba") raised
C19_WitnessHyphen ==
    /\ out.op = "Capture"
    /\ out.args = <<NameArg(Some(<<"f", "-", "b", "a">>))>>
    /\ out.raised = "ValueError"

\* C20: a.intersects(b) is True exactly when some code point lies in both
\* closed ranges, that is unless a ends before b starts or a starts after
\* b ends; ranges that share only an end point intersect, and b.intersects(a)
\* gives the same answer.
C20_IntersectsIffSharedCodePoint ==
    out.op = "intersects" =>
        /\ out.raised = ""
        /\ out.result =
             (\E p \in 0..MaxPoint :
                 /\ out.args[1].range.start <= p /\ p <= out.args[1].range.end
                 /\ out.args[2].range.start <= p /\ p <= out.args[2].range.end)
        /\ out.result =
             ~ \/ out.args[1].range.end < out.args[2].range.start
               \/ out.args[1].range.start > out.args[2].range.end
        /\ out.result =
             SetRange_intersects(out.args[2].range, out.args[1].range)

\* SetRange(0, 1).intersects(SetRange(1, 2)) was True: only 1 is shared
C20_Witness ==
    /\ out.op = "intersects"
    /\ out.args[1].range = SetRange(0, 1)
    /\ out.args[2].range = SetRange(1, 2)
    /\ out.result

\* SetRange(0, 0).intersects(SetRange(1, 2)) was False
C20_WitnessApart ==
    /\ out.op = "intersects"
    /\ out.args[1].range = SetRange(0, 0)
    /\ out.args[2].range = SetRange(1, 2)
    /\ ~out.result

\* the value of a string of digits
RECURSIVE NumeralValue(_)
NumeralValue(text) ==
    IF text = <<>> THEN 0
    ELSE 10 * NumeralValue(SubSeq(text, 1, Len(text) - 1))
         + DigitValue(text[Len(text)])

\* the decimal numeral of an integer of 0..255, without leading zeros
IsOctetNumeral(text) ==
    /\ Len(text) >= 1
    /\ \A i \in 1..Len(text) : IsDigit(text[i])
    /\ Len(text) > 1 => text[1] # "0"
    /\ NumeralValue(text) <= 255

\* C21: dec_octet between ^ and $, run on a string as the test module runs
\* it, matches the string exactly when the string is the decimal numeral of
\* an integer of 0 to 255 written without leading zeros.
C21_DecOctetIsNumeralTo255 ==
    (matched # NoMatch /\ matched.node = dec_octet) =>
        /\ matched.raised = ""
        /\ matched.result <=> IsOctetNumeral(matched.text)

\* "255" was matched
C21_Witness ==
    /\ matched.node = dec_octet
    /\ matched.text = <<"2", "5", "5">>
    /\ matched.result

\* "256" was not matched
C21_WitnessAbove ==
    /\ matched.node = dec_octet
    /\ matched.text = <<"2", "5", "6">>
    /\ matched.raised = ""
    /\ ~matched.result

\* "01" was not matched
C21_WitnessLeadingZero ==
    /\ matched.node = dec_octet
    /\ matched.text = <<"0", "1">>
    /\ matched.raised = ""
    /\ ~matched.result

\* the urls of the stack of a context
StackUrls(self) ==
    [i \in 1..Len(self.url_context_stack) |-> self.url_context_stack[i].url]

NoUrlTwice(self) ==
    \A i, j \in 1..Len(self.url_context_stack) :
        self.url_context_stack[i].url = self.url_context_stack[j].url => i = j

IsPush == called.op \in {"_push_context", "track.enter"}

\* C22, as the claim states it: the stack never holds a url twice, and a
\* push of a url that is on the stack raises SchemaIncludesSelfError and
\* leaves the stack as it was.
C22_PushOfUrlOnStackRaisesSelfError ==
    /\ NoUrlTwice(context)
    /\ (IsPush /\ url_in_context(called.before, called.url)) =>
           /\ called.raised = "SchemaIncludesSelfError"
           /\ context = called.before

\* C22, amended: the stack never holds a url twice, and a push of a url
\* that is on the stack raises and leaves the stack as it was: it raises
\* SchemaIncludesSelfError when a trigger element is given, and ValueError
\* when none is.
C22_PushOfUrlOnStackRaises ==
    /\ NoUrlTwice(context)
    /\ (IsPush /\ url_in_context(called.before, called.url)) =>
           /\ called.raised = IF called.trigger_el = None
                              THEN "ValueError"
                              ELSE "SchemaIncludesSelfError"
           /\ context = called.before
           /\ called.returned = 0

\* x:/foo, which is on the stack under x:/bar, was pushed with a trigger
\* element: an indirect self-include
C22_Witness ==
    /\ IsPush
    /\ called.url = Some("x:/foo")
    /\ called.trigger_el # None
    /\ StackUrls(called.before) = <<Some("x:/foo"), Some("x:/bar")>>
    /\ called.raised = "SchemaIncludesSelfError"

\* x:/foo, which is on the stack, was pushed without a trigger element
C22_WitnessNoTrigger ==
    /\ IsPush
    /\ called.url = Some("x:/foo")
    /\ called.trigger_el = None
    /\ StackUrls(called.before) = <<Some("x:/foo")>>
    /\ called.raised = "ValueError"

\* the last entry of the stack of a context that has one
StackHead(self) == self.url_context_stack[Len(self.url_context_stack)]

\* C27: _pop_context(url, token) returns normally exactly when the stack
\* is not empty and its top entry was pushed with this url and is held
\* with this token; on an empty stack, on another url and on another
\* token it raises ValueError.
C27_PopReturnsOnlyOnMatchingHead ==
    called.op = "_pop_context" =>
        /\ called.raised \in {"", "ValueError"}
        /\ called.raised = "" <=>
             /\ Len(called.before.url_context_stack) # 0
             /\ StackHead(called.before).url = called.url
             /\ StackHead(called.before).token = called.token

\* _pop_context was called with the url of the top entry and the token of
\* the entry below, and raised
C27_Witness ==
    /\ called.op = "_pop_context"
    /\ Len(called.before.url_context_stack) = 2
    /\ StackHead(called.before).url = called.url
    /\ called.token = called.before.url_context_stack[1].token
    /\ called.raised = "ValueError"

\* _pop_context was called on the empty stack and raised
C27_WitnessEmpty ==
    /\ called.op = "_pop_context"
    /\ Len(called.before.url_context_stack) = 0
    /\ called.raised = "ValueError"

\* _pop_context was called with the url and the token of the top entry and
\* returned
C27_WitnessReturned ==
    /\ called.op = "_pop_context"
    /\ Len(called.before.url_context_stack) # 0
    /\ called.raised = ""
    /\ context.url_context_stack =
         SubSeq(called.before.url_context_stack, 1,
                Len(called.before.url_context_stack) - 1)

\* the entry of the block that was left is on the stack
EntryOfBlockOnStack ==
    \E i \in 1..Len(context.url_context_stack) :
        /\ context.url_context_stack[i].url = called.url
        /\ context.url_context_stack[i].token = called.token

\* C30: when a track(url) block exits normally, the context stack is what
\* it was before the block was entered; when the body of the block raises,
\* nothing is popped, and the entry pushed for url is on the stack.
C30_TrackRestoresStackOnNormalExitOnly ==
    called.op = "track.exit" =>
        /\ called.raised = "" =>
             context.url_context_stack = called.before.url_context_stack
        /\ called.raised = "Exception" =>
             /\ context.url_context_stack = called.at.url_context_stack
             /\ EntryOfBlockOnStack
             /\ context.url_context_stack # called.before.url_context_stack

\* a block entered on x:/foo inside a block on x:/bar raised: both entries
\* are on the stack
C30_Witness ==
    /\ called.op = "track.exit"
    /\ called.raised = "Exception"
    /\ called.url = Some("x:/foo")
    /\ StackUrls(context) = <<Some("x:/bar"), Some("x:/foo")>>
    /\ Len(blocks) = 1

\* a block entered inside another was left normally
C30_WitnessNormal ==
    /\ called.op = "track.exit"
    /\ called.raised = ""
    /\ Len(called.before.url_context_stack) = 1
    /\ context = called.before
    /\ Len(called.at.url_context_stack) = 2

\* the first call of handler.dereference for url, if there is one
FirstFetchOf(url) ==
    CHOOSE i \in 1..Len(fetches) :
        /\ fetches[i].url = url
        /\ \A j \in 1..(i - 1) : fetches[j].url # url

\* C23: within one inline operation, handler.dereference is called at most
\* once for each url, and a dereference_url of a url that has been
\* dereferenced calls no handler and is served the bytes the first call
\* returned.
C23_OneFetchPerUrl ==
    /\ \A i, j \in 1..Len(fetches) : fetches[i].url = fetches[j].url => i = j
    /\ (called.op = "dereference_url"
        /\ has_been_dereferenced(called.before, called.url[1])) =>
           /\ \E i \in 1..Len(fetches) : fetches[i].url = called.url[1]
           /\ called.content = fetches[FirstFetchOf(called.url[1])].content
           /\ context = called.before

\* x:/foo was dereferenced a second time, after x:/bar, with one call of
\* the handler for each
C23_Witness ==
    /\ called.op = "dereference_url"
    /\ called.url = Some("x:/foo")
    /\ has_been_dereferenced(called.before, "x:/foo")
    /\ has_been_dereferenced(called.before, "x:/bar")
    /\ called.raised = ""
    /\ Len(fetches) = 2

\* C24, as the claim states it: is_expansive() is true of a node exactly
\* when the node is a Choice of more than one alternative.
C24_ExpansiveIffChoiceOfSeveral ==
    Rendered =>
        (out.expansive <=>
            (out.node.kind = "Choice" /\ Len(out.node.expressions) > 1))

\* C24, as the code has it: is_expansive() is false for every Sequence,
\* Capture, Repeat, Literal, Set and StandAlone and true for every Choice
\* of more than one alternative; for a Choice of one alternative it is
\* true exactly when is_singular() of the Choice is false, which it is
\* whenever render() of the alternative is not one atom.
C24_ExpansiveIffChoiceNotSingular ==
    Rendered =>
        /\ out.node.kind # "Choice" => ~out.expansive
        /\ (out.node.kind = "Choice" /\ Len(out.node.expressions) > 1) =>
               out.expansive
        /\ (out.node.kind = "Choice" /\ Len(out.node.expressions) = 1) =>
               /\ out.expansive <=> ~out.singular
               /\ ~OneAtom(render(out.node.expressions[1])) => out.expansive

\* Choice(Literal("ab")), of one alternative, was rendered as ab, and its
\* is_expansive() is true
C24_Witness ==
    /\ Rendered
    /\ out.node.kind = "Choice"
    /\ Len(out.node.expressions) = 1
    /\ out.node.expressions[1].kind = "Literal"
    /\ out.rendered = <<"a", "b">>
    /\ out.expansive

\* a Choice of one alternative that is singular is not expansive
C24_WitnessSingular ==
    /\ Rendered
    /\ out.node.kind = "Choice"
    /\ Len(out.node.expressions) = 1
    /\ ~out.expansive

\* an end point of a range as the claim has it rendered: behind a backslash
\* when it is \, ] or -, or ^ at the start of the first range
EndPoint(code_point, starts_first) ==
    IF \/ chr(code_point) \in {"\\", "]", "-"}
       \/ chr(code_point) = "^" /\ starts_first
    THEN <<"\\", chr(code_point)>>
    ELSE <<chr(code_point)>>

\* the ranges of a Set from the pos-th on, as the claim has them rendered
RECURSIVE RangesFrom(_, _)
RangesFrom(ranges, pos) ==
    IF pos > Len(ranges) THEN <<>>
    ELSE (IF ranges[pos].start = ranges[pos].end
          THEN EndPoint(ranges[pos].start, pos = 1)
          ELSE EndPoint(ranges[pos].start, pos = 1) \o <<"-">>
               \o EndPoint(ranges[pos].end, FALSE))
         \o RangesFrom(ranges, pos + 1)

\* C25: Set.render() is [, the ranges of the final range list in order and
\* ]; an end point of a range is written behind a backslash exactly when it
\* is \, ] or -, or it is ^ and starts the first range, and as it is
\* otherwise; the class never begins with a ^ that is not escaped.
C25_SetEscapesItsEndPoints ==
    (Rendered /\ out.node.kind = "Set") =>
        /\ out.rendered = <<"[">> \o RangesFrom(out.node.ranges, 1) \o <<"]">>
        /\ out.rendered[2] # "^"

\* Set(("]", "^"), "^") was rendered: ^ ends the first range and is the
\* second range, and is written as it is in both places
C25_Witness ==
    /\ Rendered
    /\ out.node.kind = "Set"
    /\ out.node.ranges = <<SetRange(93, 94), SetRange(94, 94)>>
    /\ out.rendered = <<"[", "\\", "]", "-", "^", "^", "]">>

\* Set(Set("-"), "^") was rendered: the ^ comes first in the final range
\* list and is escaped
C25_WitnessMerged ==
    /\ Rendered
    /\ out.node.kind = "Set"
    /\ out.node.ranges = <<SetRange(94, 94), SetRange(45, 45)>>
    /\ out.rendered = <<"[", "\\", "^", "\\", "-", "]">>

\* the entries of the cache for a key
EntriesOf(key) == {i \in 1..Len(cache) : cache[i].key = key}

\* a thread whose last call has returned a matcher
HasReturned(t) ==
    /\ threads[t].pc = "idle"
    /\ threads[t].calls > 0
    /\ threads[t].raised = ""

(* C26: when threads call get_regex for the same rule at the same time,    *)
(* whatever the interleaving, no call for a rule raises, the matchers the  *)
(* calls return carry the same pattern, the cache holds one entry for the  *)
(* rule once a call has returned and never two, and a call that begins     *)
(* after a call for the rule has returned finds the entry and returns the  *)
(* cached matcher.                                                         *)
C26_RaceOnFirstCallIsBenign ==
    /\ \A key \in RaceNames : Cardinality(EntriesOf(key)) <= 1
    /\ \A t \in Threads :
           /\ threads[t].name \in DOMAIN _rfc_names =>
                  threads[t].raised = ""
           /\ \A key \in threads[t].finished :
                  Cardinality(EntriesOf(key)) = 1
           /\ HasReturned(t) =>
                  /\ threads[t].returned.pattern =
                         cache[CacheIndex(threads[t].name)].result.pattern
                  /\ \A u \in Threads :
                         HasReturned(u)
                         /\ threads[u].name = threads[t].name =>
                             threads[u].returned.pattern =
                                 threads[t].returned.pattern
           /\ threads[t].later /\ threads[t].calls > 0 =>
                  /\ threads[t].hit
                  /\ threads[t].pc = "idle"
                  /\ threads[t].returned =
                         cache[CacheIndex(threads[t].name)].result

\* two threads have both compiled the same rule in their first calls, and
\* both calls have returned, with two matchers
C26_Witness ==
    /\ \A t \in Threads : HasReturned(t) /\ threads[t].calls = 1
    /\ threads[1].name = "port" /\ threads[2].name = "port"
    /\ compiled["port"] = 2
    /\ threads[1].returned.id # threads[2].returned.id

\* after such a race, a later call has returned the cached matcher
C26_WitnessLater ==
    /\ compiled["port"] = 2
    /\ \E t \in Threads :
           /\ HasReturned(t) /\ threads[t].name = "port"
           /\ threads[t].later /\ threads[t].hit

\* the calls of perform_insertions among the calls made, by position
PerformCalls ==
    {i \in 1..Len(inserted) : inserted[i].op = "perform_insertions"}

(* C28: perform_insertions() completes at most once on a                   *)
(* DeferredXmlInsertion: whatever was registered before it, and when it    *)
(* was, every call after the first raises AssertionError and returns       *)
(* nothing, whether the first call returned or raised.                     *)
C28_PerformInsertionsAtMostOnce ==
    /\ \A i, j \in PerformCalls :
           i < j => /\ inserted[j].raised = "AssertionError"
                    /\ inserted[j].returned = NoElement
    /\ Cardinality({i \in PerformCalls : inserted[i].raised = ""}) <= 1

\* a replacement was registered, the first perform_insertions returned the
\* merged tree, and the second raised
C28_Witness ==
    /\ Len(inserted) = 3
    /\ inserted[1].op = "register_replace" /\ inserted[1].at = <<1>>
    /\ inserted[2].op = "perform_insertions" /\ inserted[2].raised = ""
    /\ inserted[2].returned # NoElement
    /\ inserted[3].op = "perform_insertions"
    /\ inserted[3].raised = "AssertionError"

\* nothing was registered, and the second perform_insertions raised
C28_WitnessNone ==
    /\ Len(inserted) = 2
    /\ inserted[1].op = "perform_insertions" /\ inserted[1].raised = ""
    /\ inserted[2].op = "perform_insertions"
    /\ inserted[2].raised = "AssertionError"

\* only the root was replaced, and the second perform_insertions raised
C28_WitnessRoot ==
    /\ Len(inserted) = 3
    /\ inserted[1].op = "register_replace" /\ inserted[1].at = <<>>
    /\ inserted[2].op = "perform_insertions" /\ inserted[2].raised = ""
    /\ inserted[3].op = "perform_insertions"
    /\ inserted[3].raised = "AssertionError"

\* a fresh DeferredXmlInsertion is given one register_replace, which
\* returns, and then perform_insertions
ReplacedThenPerformed ==
    /\ Len(inserted) >= 2
    /\ inserted[1].op = "register_replace" /\ inserted[1].raised = ""
    /\ inserted[2].op = "perform_insertions"

\* the tree with what new_el stands for in the place of old_el, as
\* el.getparent().replace(el, replacement) leaves it
Replaced(tree, old_el, new_el) == WithElementAt(tree, old_el, TreeOf(new_el))

(* C29: after register_replace(old_el, new_el) on a fresh                  *)
(* DeferredXmlInsertion, perform_insertions() returns the tree with new_el *)
(* in the place of old_el and without old_el, also when old_el is the      *)
(* root of the tree.                                                       *)
C29_ReplacedElementIsInPlace ==
    ReplacedThenPerformed =>
        /\ inserted[2].raised = ""
        /\ inserted[2].returned =
               Replaced(inserted[1].before, inserted[1].at, inserted[1].el)

(* C29, for an old_el that is not the root: after                          *)
(* register_replace(old_el, new_el) on a fresh DeferredXmlInsertion,       *)
(* perform_insertions() returns the tree with new_el in the place of       *)
(* old_el and without old_el; when old_el is the root, it returns the tree *)
(* as it was.                                                              *)
C29_ReplacedElementIsInPlaceUnlessRoot ==
    ReplacedThenPerformed =>
        /\ inserted[2].raised = ""
        /\ inserted[1].at # <<>> =>
               inserted[2].returned =
                   Replaced(inserted[1].before, inserted[1].at,
                            inserted[1].el)
        /\ inserted[1].at = <<>> =>
               inserted[2].returned = inserted[1].before

\* an element with a tail, below the root, was replaced by a
\* DeferredXmlInsertion that had replaced an element itself
C29_Witness ==
    /\ ReplacedThenPerformed
    /\ inserted[1].at = <<1>>
    /\ inserted[1].before.kids[1].tail # <<>>
    /\ inserted[1].el.is_dxi
    /\ inserted[1].el.pending_insertions # <<>>
    /\ inserted[2].returned.kids[1] = TreeXZ

\* the root was replaced, and perform_insertions returned the old root
C29_WitnessRoot ==
    /\ ReplacedThenPerformed
    /\ inserted[1].at = <<>>
    /\ inserted[2].returned = inserted[1].before
    /\ inserted[2].returned # TreeOf(inserted[1].el)

=============================================================================
